---------------------------- MODULE Spec2Model ----------------------------
(***************************************************************************)
(* Infinite canvas: the camera (CanvasView zoom and wheel handling) and    *)
(* the item store (DrawingModel over a quadtree index and an IndexedDB     *)
(* persistence layer).                                                     *)
(*                                                                         *)
(* JavaScript numbers are modelled as exact rationals over arbitrary       *)
(* precision naturals (TLC integers are 32 bit wide and 11^9 already       *)
(* overflows them); floating point rounding is outside the model.          *)
(***************************************************************************)
EXTENDS Integers, Sequences, FiniteSets, TLC

VARIABLES
    \* --- CanvasView camera state (canvas/canvasView.ts)
    zoomExp,        \* private zoomExp: number
    localScale,     \* private localScale: number (a rational)
    zoomIns,        \* history: wheel steps with delta < 0 applied so far
    zoomOuts,       \* history: wheel steps with delta > 0 applied so far
    insFirst,       \* history: every zoom-in came before every zoom-out, no delta = 0
    lastDelta,      \* history: <<delta>> of the last wheel step, or <<>>
    \* --- CanvasView pan state and page placement
    worldX,         \* this.world.x (a rational)
    worldY,         \* this.world.y (a rational)
    view,           \* options.mainCanvas and the canvas' getBoundingClientRect()
    frozen,         \* drawState.frozen
    lastWheel,      \* history: the last wheel event and the world point under it
    \* --- DrawingModel (DrawingData/drawingModel.ts)
    tree,           \* private tree: Quadtree<QuadItem>
    db,             \* the IndexedDB tables strokes and textCards, keyed by id
    dbq,            \* IndexedDB requests issued and not yet completed, oldest first
    revision,       \* store.revision
    initialized,    \* store.initialized
    nextId,         \* identifiers handed out by crypto.randomUUID() so far, plus one
    nextRef,        \* objects created so far, plus one (object identity)
    calls,          \* history: calls of the model's methods so far
    initCalls,      \* history: calls of init() so far
    addBeforeInit,  \* history: an item was added before a call of init()
    lastOp,         \* history: what the last step did
    \* --- the landmark contexts of the views (canvas/fractalLandmarks.ts)
    landmarks,      \* this.fractalCtx of each view, with the history of its updates
    \* --- the drawing of a view (canvas/canvasView.ts, tools/drawTool.ts)
    drawState,      \* this.drawState (frozen is above)
    strokeCache,    \* this.strokeCache: key -> Graphics (its place in graphics)
    graphics,       \* the Graphics objects made for strokes, oldest first
    pointerLog,     \* history: points pushed for each pointer, the last pointerUp
    lastFrame,      \* history: frames rendered, strokes they were given
    \* --- the tools (appState.ts, canvasTools/getCanvasTool.ts)
    activeTool,     \* appStore.getState().activeTool
    canvasTool,     \* this.canvasTool of the view: the class of the tool object
    \* --- the notecards over the canvas (Notecard/notecardOverlay.ts)
    overlay,        \* this.overlay: its frame counter and its map of notecards
    \* --- the element list of the 2D-canvas application (js/elements.js)
    elements        \* the ElementsManager: its objects, items, selection and history

zoomVars == <<zoomExp, localScale, zoomIns, zoomOuts, insFirst, lastDelta>>
viewVars == <<worldX, worldY, view, frozen, lastWheel>>

storeVars == <<tree, db, dbq, revision, initialized, nextId, nextRef, calls,
               initCalls, addBeforeInit, lastOp>>

landVars == <<landmarks>>

toolVars == <<activeTool, canvasTool>>

drawVars == <<drawState, strokeCache, graphics, pointerLog, lastFrame, toolVars, overlay>>

elementVars == <<elements>>

vars == <<zoomVars, viewVars, storeVars, landVars, drawVars, elementVars>>

----------------------------------------------------------------------------
(***************************************************************************)
(* Exact arithmetic.  A natural is a sequence of limbs, least significant  *)
(* first, without leading zero limbs; zero is the empty sequence.          *)
(***************************************************************************)
LimbBase == 10 ^ 4

RECURSIVE BNorm(_)
BNorm(s) ==
    IF s = <<>> THEN s
    ELSE IF s[Len(s)] = 0 THEN BNorm(SubSeq(s, 1, Len(s) - 1)) ELSE s

RECURSIVE BigOf(_)
BigOf(n) == IF n = 0 THEN <<>> ELSE <<n % LimbBase>> \o BigOf(n \div LimbBase)

BRest(a) == IF a = <<>> THEN a ELSE Tail(a)
BLow(a) == IF a = <<>> THEN 0 ELSE Head(a)

RECURSIVE BAddC(_, _, _)
BAddC(a, b, c) ==
    IF a = <<>> /\ b = <<>> THEN (IF c = 0 THEN <<>> ELSE <<c>>)
    ELSE LET s == BLow(a) + BLow(b) + c
         IN  <<s % LimbBase>> \o BAddC(BRest(a), BRest(b), s \div LimbBase)

BAdd(a, b) == BAddC(a, b, 0)

\* a - b for a >= b
RECURSIVE BSubC(_, _, _)
BSubC(a, b, c) ==
    IF a = <<>> THEN <<>>
    ELSE LET d == Head(a) - BLow(b) - c
         IN  <<IF d < 0 THEN d + LimbBase ELSE d>>
                 \o BSubC(Tail(a), BRest(b), IF d < 0 THEN 1 ELSE 0)

BSub(a, b) == BNorm(BSubC(a, b, 0))

RECURSIVE BCmpAt(_, _, _)
BCmpAt(a, b, i) ==
    IF i = 0 THEN 0
    ELSE IF a[i] # b[i] THEN (IF a[i] < b[i] THEN -1 ELSE 1)
    ELSE BCmpAt(a, b, i - 1)

\* -1, 0 or 1
BCmp(a, b) ==
    IF Len(a) # Len(b) THEN (IF Len(a) < Len(b) THEN -1 ELSE 1)
    ELSE BCmpAt(a, b, Len(a))

\* a * c + carry for a limb c
RECURSIVE BMulLimbC(_, _, _)
BMulLimbC(a, c, carry) ==
    IF a = <<>> THEN (IF carry = 0 THEN <<>> ELSE <<carry>>)
    ELSE LET p == Head(a) * c + carry
         IN  <<p % LimbBase>> \o BMulLimbC(Tail(a), c, p \div LimbBase)

BMulLimb(a, c) == IF c = 0 THEN <<>> ELSE BMulLimbC(a, c, 0)

BShift(a) == IF a = <<>> THEN a ELSE <<0>> \o a

RECURSIVE BMul(_, _)
BMul(a, b) ==
    IF b = <<>> THEN <<>>
    ELSE BAdd(BMulLimb(a, Head(b)), BShift(BMul(a, Tail(b))))

\* a mod c for a limb c > 0, from the most significant limb down
RECURSIVE BModLimbAt(_, _, _, _)
BModLimbAt(a, c, i, rem) ==
    IF i = 0 THEN rem
    ELSE BModLimbAt(a, c, i - 1, (rem * LimbBase + a[i]) % c)

BModLimb(a, c) == BModLimbAt(a, c, Len(a), 0)

\* a div c for a limb c > 0 (schoolbook short division)
RECURSIVE BDivLimbAt(_, _, _, _)
BDivLimbAt(a, c, i, rem) ==
    IF i = 0 THEN <<>>
    ELSE LET cur == rem * LimbBase + a[i]
         IN  BDivLimbAt(a, c, i - 1, cur % c) \o <<cur \div c>>

BDivLimb(a, c) == BNorm(BDivLimbAt(a, c, Len(a), 0))

(***************************************************************************)
(* Rationals: sign s in {-1, 0, 1}, numerator n and denominator d > 0.     *)
(* Every denominator the program produces is a product of powers of 2, 3,  *)
(* 5 and 11 (the factors 1.1 = 11/10 and 0.9 = 9/10, powers of two and     *)
(* their inverses applied to integers), so cancelling the common factors   *)
(* 2, 3, 5 and 11 yields lowest terms.  Comparisons cross-multiply and do  *)
(* not rely on that.                                                       *)
(***************************************************************************)
RZero == [s |-> 0, n |-> <<>>, d |-> <<1>>]

\* cancel the common factor c of n and d as often as it divides both
RECURSIVE Cancel(_, _)
Cancel(f, c) ==
    IF BModLimb(f.n, c) = 0 /\ BModLimb(f.d, c) = 0
    THEN Cancel([n |-> BDivLimb(f.n, c), d |-> BDivLimb(f.d, c)], c)
    ELSE f

\* (large powers of two first, which keeps the recursion shallow)
CancelAll(f) ==
    Cancel(Cancel(Cancel(Cancel(Cancel(Cancel(f, 2 ^ 13), 2 ^ 4), 2), 3), 5), 11)

RNorm(s, n, d) ==
    IF n = <<>> \/ s = 0 THEN RZero
    ELSE LET f == CancelAll([n |-> n, d |-> d])
         IN  [s |-> s, n |-> f.n, d |-> f.d]

Sign(i) == IF i < 0 THEN -1 ELSE IF i = 0 THEN 0 ELSE 1
Abs(i) == IF i < 0 THEN -i ELSE i

\* the rational a / b for integers a and b # 0
RFrac(a, b) == RNorm(Sign(a) * Sign(b), BigOf(Abs(a)), BigOf(Abs(b)))
RInt(i) == RFrac(i, 1)

RNeg(p) == [p EXCEPT !.s = -p.s]
RMul(p, q) == RNorm(p.s * q.s, BMul(p.n, q.n), BMul(p.d, q.d))
RInv(p) == [s |-> p.s, n |-> p.d, d |-> p.n]
RDiv(p, q) == RMul(p, RInv(q))

RAdd(p, q) ==
    IF p.s = 0 THEN q
    ELSE IF q.s = 0 THEN p
    ELSE LET a == BMul(p.n, q.d)
             b == BMul(q.n, p.d)
             d == BMul(p.d, q.d)
             c == BCmp(a, b)
         IN  IF p.s = q.s THEN RNorm(p.s, BAdd(a, b), d)
             ELSE IF c = 0 THEN RZero
             ELSE IF c > 0 THEN RNorm(p.s, BSub(a, b), d)
             ELSE RNorm(q.s, BSub(b, a), d)

RSub(p, q) == RAdd(p, RNeg(q))
\* -1, 0 or 1 as p < q, p = q or p > q
RCmp(p, q) ==
    IF p.s # q.s THEN (IF p.s < q.s THEN -1 ELSE 1)
    ELSE p.s * BCmp(BMul(p.n, q.d), BMul(q.n, p.d))

REq(p, q) == RCmp(p, q) = 0
RLess(p, q) == RCmp(p, q) < 0
RLeq(p, q) == RCmp(p, q) <= 0

\* Math.pow(2, k) for an integer k
RECURSIVE BPow2(_)
BPow2(k) == IF k < 13 THEN <<2 ^ k>> ELSE BMulLimb(BPow2(k - 13), 2 ^ 13)

RPow2(k) ==
    IF k >= 0 THEN [s |-> 1, n |-> BPow2(k), d |-> <<1>>]
    ELSE [s |-> 1, n |-> <<1>>, d |-> BPow2(-k)]

IsRational(p) ==
    /\ p.s \in {-1, 0, 1}
    /\ p.d # <<>>
    /\ (p.s = 0) = (p.n = <<>>)

----------------------------------------------------------------------------
(***************************************************************************)
(* Zoom model of CanvasView: effective scale = localScale * 2^zoomExp.     *)
(***************************************************************************)
InitialZoomExp == -30
InitialLocalScale == RInt(1)

ZoomInFactor == RFrac(11, 10)
ZoomOutFactor == RFrac(9, 10)

\* mutant: zooming out undoes zooming in (factor 1 / 1.1)
WheelFactor_Inverse(delta) == IF delta < 0 THEN ZoomInFactor ELSE RFrac(10, 11)

\* const factor = delta < 0 ? 1.1 : 0.9
WheelFactor(delta) == IF delta < 0 THEN ZoomInFactor ELSE ZoomOutFactor

\* getZoom(): this.localScale * Math.pow(2, this.zoomExp)
GetZoom(ls, ze) == RMul(ls, RPow2(ze))

\* mutant: the length is multiplied by the mantissa
GetScaledStroke_TimesMantissa(strokeWidth, ls, ze) ==
    RMul(RMul(RInt(strokeWidth), ls), RPow2(-ze))

\* getScaledStroke(strokeWidth):
\* (strokeWidth / this.localScale) * Math.pow(2, -this.zoomExp)
GetScaledStroke(strokeWidth, ls, ze) ==
    RMul(RDiv(RInt(strokeWidth), ls), RPow2(-ze))

\* mutant: the overflow loop is missing
FoldHigh_NoLoop(z) == z

\* mutant: the overflow loop halves the mantissa and forgets the exponent
RECURSIVE FoldHigh_KeepExp(_)
FoldHigh_KeepExp(z) ==
    IF RLeq(RInt(2), z.localScale)
    THEN FoldHigh_KeepExp([localScale |-> RDiv(z.localScale, RInt(2)), zoomExp |-> z.zoomExp])
    ELSE z

\* while (this.localScale >= 2) { this.localScale /= 2; this.zoomExp++; }
RECURSIVE FoldHigh(_)
FoldHigh(z) ==
    IF RLeq(RInt(2), z.localScale)
    THEN FoldHigh([localScale |-> RDiv(z.localScale, RInt(2)), zoomExp |-> z.zoomExp + 1])
    ELSE z

\* while (this.localScale < 0.5) { this.localScale *= 2; this.zoomExp--; }
RECURSIVE FoldLow(_)
FoldLow(z) ==
    IF RLess(z.localScale, RFrac(1, 2))
    THEN FoldLow([localScale |-> RMul(z.localScale, RInt(2)), zoomExp |-> z.zoomExp - 1])
    ELSE z

\* _updateZoom(delta)
UpdateZoom(ls, ze, delta) ==
    FoldLow(FoldHigh([localScale |-> RMul(ls, WheelFactor(delta)), zoomExp |-> ze]))

----------------------------------------------------------------------------
(***************************************************************************)
(* SpecZoom: the zoom model alone, driven by arbitrary wheel deltas.       *)
(***************************************************************************)
MaxZoomSteps == 17
NoDelta == <<>>
WheelDeltas == {-100, 0, 100}

ZoomSteps == zoomIns + zoomOuts

InitZoomState ==
    /\ zoomExp = InitialZoomExp
    /\ localScale = InitialLocalScale
    /\ zoomIns = 0
    /\ zoomOuts = 0
    /\ insFirst = TRUE
    /\ lastDelta = NoDelta

\* The effect of one _updateZoom(delta) on the camera and its history; a
\* delta of 0 takes the 0.9 branch and is counted with the zoom-outs.
ApplyUpdateZoom(delta) ==
    /\ LET z == UpdateZoom(localScale, zoomExp, delta)
       IN  /\ localScale' = z.localScale
           /\ zoomExp' = z.zoomExp
    /\ zoomIns' = IF delta < 0 THEN zoomIns + 1 ELSE zoomIns
    /\ zoomOuts' = IF delta < 0 THEN zoomOuts ELSE zoomOuts + 1
    /\ insFirst' = (insFirst /\ delta # 0 /\ (delta < 0 => zoomOuts = 0))
    /\ lastDelta' = <<delta>>

ZoomStep(delta) ==
    /\ ZoomSteps < MaxZoomSteps
    /\ ApplyUpdateZoom(delta)
    /\ UNCHANGED <<elementVars, viewVars, storeVars, landVars, drawVars>>

----------------------------------------------------------------------------
(***************************************************************************)
(* The view: pan offset, placement of the canvas on the page, and the      *)
(* wheel handler of _initListeners.                                        *)
(***************************************************************************)
\* page layouts: the fullscreen main canvas (resizeTo window, at the page
\* origin) and fixed-size sub-canvases at some place on the page
MainWidth == 800
MainHeight == 600
SubWidth == 200
SubHeight == 100
SubPlaces == {[left |-> 0, top |-> 0], [left |-> 120, top |-> 40]}

Views ==
    {[mainCanvas |-> TRUE, left |-> 0, top |-> 0, width |-> MainWidth, height |-> MainHeight]}
    \cup {[mainCanvas |-> FALSE, left |-> p.left, top |-> p.top,
           width |-> SubWidth, height |-> SubHeight] : p \in SubPlaces}

\* positions of the pointer relative to the canvas' top left corner
PointerOffsets == {[x |-> 10, y |-> 20], [x |-> 60, y |-> 30]}

NoWheel == [handled |-> FALSE]

\* no Graphics (null), and the key of the live preview in strokeCache
\* ("temp"; the keys of strokes are the identifiers of the items)
NoGraphics == 0
TempId == -1

\* the pointers of the page: the mouse and a touch contact
PointerIds == {1, 2}
NoPointerUp == [type |-> "none"]

\* this.drawState of the constructor (frozen is a variable of its own)
NewOverlay == [frame |-> 0, notecards |-> <<>>]

\* The objects of an ElementsManager live in heap and are known by their
\* place in it, so that one object held by two lists is one object. An
\* item is [type, x, img]: img is <<>> on an item without one, and else
\* <<[element, src]>>, where element tells a live HTMLImageElement from the
\* plain object {src}. taken, dropped, lastCall and calls are history.
NoRef == 0

\* constructor(): items = [], selected = null, history = [[]],
\* historyIndex = 0, clipboard = null
NewElementsManager ==
    [heap |-> <<>>, items |-> <<>>, selected |-> NoRef, history |-> << <<>> >>,
     historyIndex |-> 0, clipboard |-> <<>>,
     taken |-> << <<>> >>, dropped |-> 0, lastCall |-> "constructor", calls |-> 0]

NewDrawState ==
    [active |-> FALSE, pointerID |-> -1, pts |-> <<>>, g |-> NoGraphics, width |-> 2,
     color |-> 0]

\* blockDrawingEvent(target, mainCanvas): on the main canvas an event whose
\* target lies in a button, a notecard or a sub-canvas is blocked
BlockDrawingEvent(targetBlocked, mainCanvas) ==
    IF mainCanvas THEN targetBlocked ELSE FALSE

\* getLocalCoordsFromEvent(event)
GetLocalCoordsFromEvent(ev, v) ==
    [x |-> ev.clientX - v.left, y |-> ev.clientY - v.top]

\* screenToWorld(x, y) for a pan (wx, wy) and a zoom state
ScreenToWorld(x, y, wx, wy, ls, ze) ==
    LET inv == RDiv(RInt(1), GetZoom(ls, ze))
    IN  [x |-> RMul(RSub(RInt(x), wx), inv), y |-> RMul(RSub(RInt(y), wy), inv)]

\* this.world.x = e.clientX - worldPoint.x * newZoom (and likewise y)
WheelPan(ev, worldPoint, newZoom) ==
    [x |-> RSub(RInt(ev.clientX), RMul(worldPoint.x, newZoom)),
     y |-> RSub(RInt(ev.clientY), RMul(worldPoint.y, newZoom))]

InitView ==
    /\ view \in Views
    \* this.world.x = this.app.renderer.width * 0.5
    /\ worldX = RFrac(view.width, 2)
    /\ worldY = RFrac(view.height, 2)
    /\ frozen = FALSE
    /\ lastWheel = NoWheel
    /\ drawState = NewDrawState
    \* this.strokeCache = new Map()
    /\ strokeCache = <<>>
    /\ graphics = <<>>
    /\ pointerLog = [collected |-> [p \in PointerIds |-> 0], lastUp |-> NoPointerUp]
    /\ lastFrame = [ticks |-> 0, seen |-> {}, returned |-> {}]
    \* activeTool: "draw" of appStore, this.canvasTool = new DrawTool(this)
    /\ activeTool = "draw"
    /\ canvasTool = "DrawTool"
    \* new NotecardOverlay(this): frame = 0 and an empty map of notecards
    /\ overlay = NewOverlay
    \* new ElementsManager()
    /\ elements = NewElementsManager

MaxWheel == 3

\* the "wheel" listener
Wheel(ev) ==
    /\ ZoomSteps < MaxWheel
    /\ IF frozen \/ BlockDrawingEvent(ev.targetBlocked, view.mainCanvas)
       THEN /\ UNCHANGED <<elementVars, zoomVars, worldX, worldY>>
            /\ lastWheel' = NoWheel
       ELSE LET localCoords == GetLocalCoordsFromEvent(ev, view)
                worldPoint  == ScreenToWorld(localCoords.x, localCoords.y,
                                             worldX, worldY, localScale, zoomExp)
                z           == UpdateZoom(localScale, zoomExp, ev.deltaY)
                pan         == WheelPan(ev, worldPoint, GetZoom(z.localScale, z.zoomExp))
            IN  /\ ApplyUpdateZoom(ev.deltaY)
                /\ worldX' = pan.x
                /\ worldY' = pan.y
                /\ lastWheel' = [handled |-> TRUE, sx |-> localCoords.x,
                                 sy |-> localCoords.y, before |-> worldPoint]
    /\ UNCHANGED <<elementVars, view, frozen, storeVars, landVars, drawVars>>

WheelEvents ==
    {[clientX |-> view.left + o.x, clientY |-> view.top + o.y, deltaY |-> d, targetBlocked |-> b] :
        o \in PointerOffsets, d \in WheelDeltas, b \in BOOLEAN}

\* the import handler of the main view freezes it while a file loads
\* (mainCanvasView.drawState.frozen = true ... = false)
SetFrozen(b) ==
    /\ view.mainCanvas
    /\ frozen # b
    /\ frozen' = b
    /\ lastWheel' = NoWheel
    /\ UNCHANGED <<elementVars, zoomVars, worldX, worldY, view, storeVars, landVars, drawVars>>

----------------------------------------------------------------------------
(***************************************************************************)
(* The spatial index: quadtree-ts as DrawingModel uses it (new             *)
(* Quadtree(QT_BOUNDS) with the library's defaults, insert, retrieve,      *)
(* update, remove, clear).  A node is a record of its objects and its four *)
(* subnodes (none before it splits); an indexed object is a record with    *)
(* its identity in the field ref.                                          *)
(***************************************************************************)
\* the library's defaults: maxObjects and maxLevels
QT_MAX_OBJECTS == 10
QT_MAX_LEVELS == 4

\* QT_BOUNDS = { x: -1e13, y: -1e13, width: 2e13, height: 2e13 }, in units
\* of 1e13 / 16 = 6.25e11: every edge and every centre line of a node down
\* to the deepest level is a whole number of units
QT_BOUNDS == [x |-> -16, y |-> -16, width |-> 32, height |-> 32]

EmptyNode == [objects |-> <<>>, nodes |-> <<>>]

\* the bounds of subnode i (0 = north east, 1 = north west, 2 = south west,
\* 3 = south east) of a node with bounds b, as Quadtree.split computes them
SubBounds(b, i) ==
    LET w == b.width \div 2
        h == b.height \div 2
    IN  [x |-> IF i \in {0, 3} THEN b.x + w ELSE b.x,
         y |-> IF i \in {2, 3} THEN b.y + h ELSE b.y,
         width |-> w, height |-> h]

\* v < m * 6.25e11 and v > m * 6.25e11 for a coordinate v of an item; the
\* coordinates of items are whole numbers smaller in size than one unit
BeforeLine(v, m) == m > 0 \/ (m = 0 /\ v < 0)
AfterLine(v, m) == m < 0 \/ (m = 0 /\ v > 0)

\* Rectangle.qtIndex(node): the subnodes of a node with bounds b that the
\* box o reaches
QtIndex(o, b) ==
    LET midX == b.x + b.width \div 2
        midY == b.y + b.height \div 2
        startIsNorth == BeforeLine(o.y, midY)
        startIsWest  == BeforeLine(o.x, midX)
        endIsEast    == AfterLine(o.x + o.width, midX)
        endIsSouth   == AfterLine(o.y + o.height, midY)
    IN  (IF startIsNorth /\ endIsEast THEN {0} ELSE {})
        \cup (IF startIsWest /\ startIsNorth THEN {1} ELSE {})
        \cup (IF startIsWest /\ endIsSouth THEN {2} ELSE {})
        \cup (IF endIsEast /\ endIsSouth THEN {3} ELSE {})

RECURSIVE NodeInsert(_, _, _, _)
RECURSIVE NodeInsertAll(_, _, _, _)

\* Quadtree.insert(obj) on the node with bounds b at the given level
NodeInsert(node, b, level, obj) ==
    IF node.nodes # <<>>
    THEN [node EXCEPT !.nodes =
            [i \in 1..4 |->
                IF (i - 1) \in QtIndex(obj, b)
                THEN NodeInsert(node.nodes[i], SubBounds(b, i - 1), level + 1, obj)
                ELSE node.nodes[i]]]
    ELSE LET objects == Append(node.objects, obj)
         IN  IF Len(objects) > QT_MAX_OBJECTS /\ level < QT_MAX_LEVELS
             THEN [objects |-> <<>>,
                   nodes |-> [i \in 1..4 |->
                       NodeInsertAll(EmptyNode, SubBounds(b, i - 1), level + 1,
                           SelectSeq(objects, LAMBDA o : (i - 1) \in QtIndex(o, b)))]]
             ELSE [node EXCEPT !.objects = objects]

NodeInsertAll(node, b, level, objs) ==
    IF objs = <<>> THEN node
    ELSE NodeInsertAll(NodeInsert(node, b, level, Head(objs)), b, level, Tail(objs))

TreeInsert(tr, obj) == NodeInsert(tr, QT_BOUNDS, 0, obj)

TreeInsertAll(tr, objs) == NodeInsertAll(tr, QT_BOUNDS, 0, objs)

\* Array.from(new Set(objects)): the first occurrence of every object
RECURSIVE Dedupe(_, _)
Dedupe(objs, seen) ==
    IF objs = <<>> THEN <<>>
    ELSE IF Head(objs).ref \in seen THEN Dedupe(Tail(objs), seen)
         ELSE <<Head(objs)>> \o Dedupe(Tail(objs), seen \cup {Head(objs).ref})

\* Quadtree.retrieve(obj) below the root: the objects of every node the box
\* reaches, none of them tested against the box
RECURSIVE NodeRetrieve(_, _, _)
NodeRetrieve(node, b, box) ==
    IF node.nodes = <<>> THEN node.objects
    ELSE LET sub(i) == IF (i - 1) \in QtIndex(box, b)
                       THEN NodeRetrieve(node.nodes[i], SubBounds(b, i - 1), box)
                       ELSE <<>>
         IN  node.objects \o sub(1) \o sub(2) \o sub(3) \o sub(4)

TreeRetrieve(tr, box) == Dedupe(NodeRetrieve(tr, QT_BOUNDS, box), {})

\* every object of a node and its subnodes, with repetitions
RECURSIVE NodeObjects(_)
NodeObjects(node) ==
    IF node.nodes = <<>> THEN node.objects
    ELSE node.objects \o NodeObjects(node.nodes[1]) \o NodeObjects(node.nodes[2])
            \o NodeObjects(node.nodes[3]) \o NodeObjects(node.nodes[4])

\* Quadtree.join(): a node whose subtree holds at most maxObjects distinct
\* objects takes them back and drops its subnodes
RECURSIVE NodeJoin(_)
NodeJoin(node) ==
    IF node.nodes = <<>> THEN node
    ELSE LET joined == [node EXCEPT !.nodes = [i \in 1..4 |-> NodeJoin(node.nodes[i])]]
             all    == Dedupe(NodeObjects(joined), {})
         IN  IF Len(all) <= QT_MAX_OBJECTS
             THEN [objects |-> all, nodes |-> <<>>]
             ELSE joined

\* the objects of a node without the first occurrence of the object ref
RECURSIVE Splice(_, _)
Splice(objs, ref) ==
    IF objs = <<>> THEN <<>>
    ELSE IF Head(objs).ref = ref THEN Tail(objs)
         ELSE <<Head(objs)>> \o Splice(Tail(objs), ref)

RECURSIVE NodeRemove(_, _)
NodeRemove(node, ref) ==
    [objects |-> Splice(node.objects, ref),
     nodes |-> [i \in DOMAIN node.nodes |-> NodeRemove(node.nodes[i], ref)]]

\* Quadtree.remove(obj, fast): fast skips the join
TreeRemove_Noop(tr, ref, fast) == tr

TreeRemove(tr, ref, fast) ==
    IF fast THEN NodeRemove(tr, ref) ELSE NodeJoin(NodeRemove(tr, ref))

\* Quadtree.update(obj): remove(obj, true) then insert(obj); obj is the
\* object as the caller has mutated it
TreeUpdate(tr, obj) == TreeInsert(TreeRemove(tr, obj.ref, TRUE), obj)

\* the distinct objects of the whole index
TreeObjects(tr) == Dedupe(NodeObjects(tr), {})

----------------------------------------------------------------------------
(***************************************************************************)
(* DrawingModel: the quadtree, the IndexedDB tables behind DrawingDB and   *)
(* the revision store.  An await of an IndexedDB request is a request in   *)
(* dbq; the step that completes the request also runs the code that waits  *)
(* for it, up to that code's next await.                                   *)
(***************************************************************************)
\* an item of a table: the item's own properties, without object identity
\* (structuredClone and the removal of qtIndex in saveItemToDB)
Props(o) ==
    [id |-> o.id, x |-> o.x, y |-> o.y, width |-> o.width, height |-> o.height,
     data |-> o.data]

\* getQuadItem(p): a new Rectangle with p's box, data and id
GetQuadItem(p, ref) ==
    [ref |-> ref, id |-> p.id, x |-> p.x, y |-> p.y, width |-> p.width,
     height |-> p.height, data |-> p.data]

IsStroke(i) == i.data.type = "stroke-rect"
IsTextCard(i) == i.data.type = "text-card"

RECURSIVE SeqMin(_)
SeqMin(s) ==
    IF Len(s) = 1 THEN s[1]
    ELSE LET m == SeqMin(Tail(s)) IN IF s[1] < m THEN s[1] ELSE m

RECURSIVE SeqMax(_)
SeqMax(s) ==
    IF Len(s) = 1 THEN s[1]
    ELSE LET m == SeqMax(Tail(s)) IN IF s[1] > m THEN s[1] ELSE m

\* the properties addStroke computes for a stroke: the box of its points,
\* grown by half the stroke width on every side
StrokeProps(data, id) ==
    LET xs == [i \in DOMAIN data.pts |-> data.pts[i][1]]
        ys == [i \in DOMAIN data.pts |-> data.pts[i][2]]
        margin == data.stroke.width \div 2
    IN  [id |-> id,
         x |-> SeqMin(xs) - margin,
         y |-> SeqMin(ys) - margin,
         width |-> SeqMax(xs) - SeqMin(xs) + data.stroke.width,
         height |-> SeqMax(ys) - SeqMin(ys) + data.stroke.width,
         data |-> data]

\* Object.assign(target, source)
Assign(target, source) ==
    [k \in DOMAIN target \cup DOMAIN source |->
        IF k \in DOMAIN source THEN source[k] ELSE target[k]]

\* crypto.randomUUID(): the n-th identifier handed out is a fresh one
NewId_Constant(n) == 1

NewId(n) == n

\* the tables of DrawingDB
Tables == {"strokes", "textCards"}
EmptyDB == [t \in Tables |-> <<>>]

\* the rows of a table as a function from primary key (id) to row
RowIds(table) == {table[i].id : i \in DOMAIN table}

\* mutant: a row of the same key is kept as it is (add, not put)
PutRow_KeepsOld(table, row) ==
    IF \E k \in DOMAIN table : table[k].id = row.id THEN table
    ELSE SelectSeq(table, LAMBDA r : r.id < row.id) \o <<row>>
             \o SelectSeq(table, LAMBDA r : r.id > row.id)

\* table.put(row): upsert by primary key; rows are kept in key order
RECURSIVE PutRow(_, _)
PutRow(table, row) ==
    IF table = <<>> THEN <<row>>
    ELSE IF Head(table).id = row.id THEN <<row>> \o Tail(table)
    ELSE IF Head(table).id > row.id THEN <<row>> \o table
    ELSE <<Head(table)>> \o PutRow(Tail(table), row)

RECURSIVE PutRows(_, _)
PutRows(table, rows) ==
    IF rows = <<>> THEN table ELSE PutRows(PutRow(table, Head(rows)), Tail(rows))

\* table.delete(id)
DeleteRow(table, id) == SelectSeq(table, LAMBDA r : r.id # id)

\* table.get(id): the row, or <<>> for undefined
GetRow(table, id) == SelectSeq(table, LAMBDA r : r.id = id)

\* the tables an IndexedDB request's transaction spans, and whether it writes
Scope(req) == IF req.op = "import" THEN Tables ELSE {req.table}
IsWrite(req) == req.op \in {"put", "delete", "import"}

\* IndexedDB starts transactions in the order they were created, except
\* that read-only transactions do not wait for each other
Conflicts(a, b) == Scope(a) \cap Scope(b) # {} /\ (IsWrite(a) \/ IsWrite(b))

\* mutant: requests are served in any order
Ready_AnyOrder(q, i) == TRUE

Ready(q, i) == \A j \in 1..(i - 1) : ~Conflicts(q[j], q[i])

Without(q, i) == SubSeq(q, 1, i - 1) \o SubSeq(q, i + 1, Len(q))

\* saveItemToDB(item): the put it issues, with the clone taken at the call
SaveItemToDB(item, then) ==
    IF IsStroke(item)
    THEN <<[op |-> "put", table |-> "strokes", row |-> Props(item), then |-> then]>>
    ELSE IF IsTextCard(item)
    THEN <<[op |-> "put", table |-> "textCards", row |-> Props(item), then |-> then]>>
    ELSE <<>>

\* getVisibleItems(bounds)
GetVisibleItems(tr, bounds) == TreeRetrieve(tr, bounds)

NoCard == [ref |-> 0]

\* the first element of hits with the given id (Array.find), or NoCard
RECURSIVE Find(_, _)
Find(hits, id) ==
    IF hits = <<>> THEN NoCard
    ELSE IF Head(hits).id = id THEN Head(hits) ELSE Find(Tail(hits), id)

\* getTextCardById(id) once db.textCards.get(id) has answered
GetTextCardById(database, tr, id) ==
    LET saved == GetRow(database.textCards, id)
    IN  IF saved = <<>> THEN NoCard
        ELSE Find(TreeRetrieve(tr, saved[1]), id)

\* inputs: strokes as DrawTool hands them to addStroke, text cards as
\* TextCardTool builds them, the patches of the notecard overlay
StrokeInputs ==
    {[type |-> "stroke-rect", pts |-> <<<<0, 0>>, <<10, 0>>>>,
      stroke |-> [width |-> 2, color |-> 0]],
     [type |-> "stroke-rect", pts |-> <<<<30, 40>>, <<10, 80>>>>,
      stroke |-> [width |-> 4, color |-> 0]]}

CardInputs ==
    {[x |-> -254, y |-> -152, width |-> 508, height |-> 304,
      data |-> [type |-> "text-card", zoom |-> [zoomExp |-> 0, localScale |-> 1],
                title |-> "New card", htmlString |-> ""]]}

Patches == {[title |-> "T"], [htmlString |-> "h"]}
NoBBox == <<>>
BBoxPatches == {NoBBox, [x |-> 40, y |-> 60]}

\* identifiers of an earlier session, and one no item ever had
SessionIds == [strokeA |-> 91, cardB |-> 92, strokeC |-> 93, ghost |-> 0]
StrokeA == SessionIds.strokeA
CardB == SessionIds.cardB
StrokeC == SessionIds.strokeC
GhostId == SessionIds.ghost

StrokeRow(id, pts, w) ==
    StrokeProps([type |-> "stroke-rect", pts |-> pts, stroke |-> [width |-> w, color |-> 0]], id)

CardRow(id) ==
    [id |-> id, x |-> -254, y |-> -152, width |-> 508, height |-> 304,
     data |-> [type |-> "text-card", zoom |-> [zoomExp |-> 0, localScale |-> 1],
               title |-> "Note", htmlString |-> "text"]]

\* what an earlier session may have left in IndexedDB
PersistedDBs ==
    {EmptyDB,
     [strokes |-> <<StrokeRow(StrokeA, <<<<0, 0>>, <<10, 0>>>>, 2)>>,
      textCards |-> <<CardRow(CardB)>>]}

\* what JSON.parse leaves of a text that is not JSON
Unparsable == [syntaxError |-> TRUE]

\* parsed contents of files given to loadFromFile: an export with a stroke
\* and a text card, an export with one stroke, a JSON object without a
\* textCards array, a text that is not JSON, a file with the same stroke
\* twice, and a file with a key that is no table
Files ==
    {[strokes |-> <<StrokeRow(StrokeA, <<<<0, 0>>, <<10, 0>>>>, 2)>>,
      textCards |-> <<CardRow(CardB)>>],
     [strokes |-> <<StrokeRow(StrokeC, <<<<30, 40>>, <<10, 80>>>>, 4)>>,
      textCards |-> <<>>],
     [strokes |-> <<>>],
     Unparsable,
     [strokes |-> <<StrokeRow(StrokeC, <<<<30, 40>>, <<10, 80>>>>, 4),
                    StrokeRow(StrokeC, <<<<30, 40>>, <<10, 80>>>>, 4)>>,
      textCards |-> <<CardRow(CardB)>>],
     [strokes |-> <<StrokeRow(StrokeC, <<<<30, 40>>, <<10, 80>>>>, 4)>>,
      textCards |-> <<>>, cards |-> <<CardRow(CardB)>>]}

\* the validation of importFromJson
ValidFile(file) ==
    file # Unparsable /\ "strokes" \in DOMAIN file /\ "textCards" \in DOMAIN file

\* table.bulkAdd(rows): rows whose key is taken are not added and make the
\* call reject
RECURSIVE BulkAdd(_, _)
BulkAdd(table, rows) ==
    IF rows = <<>> THEN [ok |-> TRUE, table |-> table]
    ELSE IF Head(rows).id \in RowIds(table)
    THEN [ok |-> FALSE, table |-> BulkAdd(table, Tail(rows)).table]
    ELSE BulkAdd(PutRow(table, Head(rows)), Tail(rows))

\* a transaction whose scope function threw is aborted: nothing it wrote
\* stays
AbortedImport_NoRollback(before, written) == written
AbortedImport(before, written) == before

\* the transaction of importFromJson on the tables in database: clear the
\* table of every key of the file (db.table() throws on a key that is no
\* table), then bulkAdd the strokes and, if that went well, the text cards
ImportFromJson(database, file) ==
    LET cleared  == [t \in Tables |-> IF t \in DOMAIN file THEN <<>> ELSE database[t]]
        strokes  == BulkAdd(cleared.strokes, file.strokes)
        cards    == BulkAdd(cleared.textCards, file.textCards)
        afterS   == [cleared EXCEPT !.strokes = strokes.table]
        afterC   == [afterS EXCEPT !.textCards = cards.table]
    IN  IF DOMAIN file \ Tables # {}
        THEN [ok |-> FALSE, db |-> AbortedImport(database, cleared)]
        ELSE IF ~strokes.ok THEN [ok |-> FALSE, db |-> AbortedImport(database, afterS)]
        ELSE IF ~cards.ok THEN [ok |-> FALSE, db |-> AbortedImport(database, afterC)]
        ELSE [ok |-> TRUE, db |-> afterC]

\* the items of a file, strokes and text cards
FileItems(file) == {file.strokes[k] : k \in DOMAIN file.strokes}
                       \cup {file.textCards[k] : k \in DOMAIN file.textCards}

\* history of a write: does the index hold the item as the write has it,
\* and does it hold no item with this id
Indexed(tr, item) ==
    \E k \in DOMAIN TreeObjects(tr) : Props(TreeObjects(tr)[k]) = Props(item)
Unindexed(tr, id) == \A k \in DOMAIN TreeObjects(tr) : TreeObjects(tr)[k].id # id

\* requests with history fields added
Marked(reqs, h) == [k \in DOMAIN reqs |-> Assign(reqs[k], h)]

\* is the object (by identity) among the hits
Returned(hits, ref) == \E k \in DOMAIN hits : hits[k].ref = ref
\* is an item with this id among the hits
ReturnedId(hits, id) == \E k \in DOMAIN hits : hits[k].id = id

InitStore ==
    /\ tree = EmptyNode
    /\ db \in PersistedDBs
    /\ dbq = <<>>
    /\ revision = 0
    /\ initialized = FALSE
    /\ nextId = 1
    /\ nextRef = 1
    /\ calls = 0
    /\ initCalls = 0
    /\ addBeforeInit = FALSE
    /\ lastOp = [op |-> "created"]

\* the store of a model no method of which is called (the camera
\* specifications leave it as it is)
IdleStore == InitStore /\ db = EmptyDB

\* addStroke(data)
AddStroke(data) ==
    LET rect == GetQuadItem(StrokeProps(data, NewId(nextId)), nextRef)
        tr   == TreeInsert(tree, rect)
    IN  /\ tree' = tr
        /\ dbq' = dbq \o Marked(SaveItemToDB(rect, "none"), [indexed |-> Indexed(tr, rect)])
        /\ revision' = revision + 1
        /\ nextId' = nextId + 1
        /\ nextRef' = nextRef + 1
        /\ calls' = calls + 1
        /\ lastOp' = [op |-> "addStroke", id |-> rect.id,
                      queryable |-> Returned(GetVisibleItems(tr, rect), rect.ref)]
        /\ UNCHANGED <<db, initialized, initCalls, addBeforeInit>>

\* a draw tool of some view of the model hands a stroke to addStroke
CommitStroke(data) ==
    /\ AddStroke(data)
    /\ UNCHANGED <<elementVars, zoomVars, viewVars, landVars, drawVars>>

\* addTextCard(rect), rect built by TextCardTool.pointerDown
AddTextCard(card) ==
    LET rect == GetQuadItem(Assign(card, [id |-> NewId(nextId)]), nextRef)
        tr   == TreeInsert(tree, rect)
    IN  /\ tree' = tr
        /\ dbq' = dbq \o Marked(SaveItemToDB(rect, "none"), [indexed |-> Indexed(tr, rect)])
        /\ revision' = revision + 1
        /\ nextId' = nextId + 1
        /\ nextRef' = nextRef + 1
        /\ calls' = calls + 1
        /\ lastOp' = [op |-> "addTextCard", id |-> rect.id,
                      queryable |-> Returned(GetVisibleItems(tr, rect), rect.ref)]
        /\ UNCHANGED <<db, initialized, initCalls, addBeforeInit>>

\* a text card tool of some view of the model hands a card to addTextCard
PlaceTextCard(card) ==
    /\ AddTextCard(card)
    /\ UNCHANGED <<elementVars, zoomVars, viewVars, landVars, drawVars>>

\* the put of an addStroke or addTextCard completes; nothing waits for it
SaveCompletes(i) ==
    /\ dbq[i].op = "put" /\ dbq[i].then = "none"
    /\ Ready(dbq, i)
    /\ db' = [db EXCEPT ![dbq[i].table] = PutRow(@, dbq[i].row)]
    /\ dbq' = Without(dbq, i)
    /\ lastOp' = [op |-> "saved", id |-> dbq[i].row.id]
    /\ UNCHANGED <<elementVars, zoomVars, viewVars, landVars, drawVars, tree, revision, initialized, nextId, nextRef, calls,
                   initCalls, addBeforeInit>>

\* the text cards a caller can name: those in the index or in the table
KnownCardIds ==
    {o.id : o \in {p \in {TreeObjects(tree)[k] : k \in DOMAIN TreeObjects(tree)} :
                      IsTextCard(p)}}
        \cup RowIds(db.textCards)

\* history of an asynchronous call: its number, whether anything was pending
\* when it was made, and revision at that moment
CallStamp == [callNo |-> calls + 1, quiet |-> dbq = <<>>, revision |-> revision]

\* the call with this stamp ran alone: nothing was pending when it was made
\* and no other call was made since
Alone(stamp) == stamp.quiet /\ calls = stamp.callNo

\* updateTextCard(id, patch, newBBox) up to its first await
UpdateTextCard(id, patch, newBBox) ==
    /\ dbq' = Append(dbq, [op |-> "get", table |-> "textCards", then |-> "updateTextCard",
                           id |-> id, patch |-> patch, newBBox |-> newBBox,
                           at |-> CallStamp])
    /\ calls' = calls + 1
    /\ lastOp' = [op |-> "updateTextCard"]
    /\ UNCHANGED <<elementVars, zoomVars, viewVars, landVars, drawVars, tree, db, revision, initialized, nextId, nextRef, initCalls,
                   addBeforeInit>>

\* updateTextCard from the answer of getTextCardById to the next await
UpdateTextCardResume_NoGuard(card, req, tr, rev) ==
    IF card = NoCard
    THEN [found |-> FALSE, tree |-> tr, enq |-> <<>>, revision |-> rev + 1, card |-> NoCard]
    ELSE LET patched == Assign(Assign(card, [data |-> Assign(card.data, req.patch)]),
                               req.newBBox)
         IN  [found |-> TRUE, tree |-> TreeUpdate(tr, patched),
              enq |-> SaveItemToDB(patched, "updateTextCard"),
              revision |-> rev, card |-> patched]

UpdateTextCardResume(card, req, tr, rev) ==
    IF card = NoCard
    THEN [found |-> FALSE, tree |-> tr, enq |-> <<>>, revision |-> rev, card |-> NoCard]
    ELSE LET patched == Assign(Assign(card, [data |-> Assign(card.data, req.patch)]),
                               req.newBBox)
         IN  [found |-> TRUE, tree |-> TreeUpdate(tr, patched),
              enq |-> SaveItemToDB(patched, "updateTextCard"),
              revision |-> rev, card |-> patched]

\* db.textCards.get(id) of an updateTextCard answers
UpdateTextCardLookup(i) ==
    /\ dbq[i].op = "get" /\ dbq[i].then = "updateTextCard"
    /\ Ready(dbq, i)
    /\ LET r == UpdateTextCardResume(GetTextCardById(db, tree, dbq[i].id), dbq[i],
                                     tree, revision)
           q == r.found /\ Returned(GetVisibleItems(r.tree, r.card), r.card.ref)
           h == [queryable |-> q, indexed |-> r.found /\ Indexed(r.tree, r.card),
                 at |-> dbq[i].at, patch |-> dbq[i].patch,
                 newBBox |-> dbq[i].newBBox,
                 old |-> Props(GetTextCardById(db, tree, dbq[i].id))]
       IN  /\ tree' = r.tree
           /\ revision' = r.revision
           /\ dbq' = Without(dbq, i) \o Marked(r.enq, h)
           /\ lastOp' = IF r.found
                        THEN [op |-> "updateIndexed", id |-> dbq[i].id]
                        ELSE [op |-> "updateMiss", id |-> dbq[i].id, threw |-> FALSE]
    /\ UNCHANGED <<elementVars, zoomVars, viewVars, landVars, drawVars, db, initialized, nextId, nextRef, calls, initCalls, addBeforeInit>>

\* the put of an updateTextCard completes and the method notifies
UpdateTextCardSaved(i) ==
    /\ dbq[i].op = "put" /\ dbq[i].then = "updateTextCard"
    /\ Ready(dbq, i)
    /\ db' = [db EXCEPT ![dbq[i].table] = PutRow(@, dbq[i].row)]
    /\ dbq' = Without(dbq, i)
    /\ revision' = revision + 1
    /\ lastOp' = [op |-> "updateSaved", id |-> dbq[i].row.id,
                  queryable |-> dbq[i].queryable, alone |-> Alone(dbq[i].at),
                  revAtCall |-> dbq[i].at.revision, old |-> dbq[i].old,
                  patch |-> dbq[i].patch, newBBox |-> dbq[i].newBBox]
    /\ UNCHANGED <<elementVars, zoomVars, viewVars, landVars, drawVars, tree, initialized, nextId, nextRef, calls, initCalls, addBeforeInit>>

\* deleteTextCard(id) up to its first await
DeleteTextCard(id) ==
    /\ dbq' = Append(dbq, [op |-> "get", table |-> "textCards", then |-> "deleteTextCard",
                           id |-> id, at |-> CallStamp])
    /\ calls' = calls + 1
    /\ lastOp' = [op |-> "deleteTextCard"]
    /\ UNCHANGED <<elementVars, zoomVars, viewVars, landVars, drawVars, tree, db, revision, initialized, nextId, nextRef, initCalls,
                   addBeforeInit>>

\* deleteTextCard from the answer of getTextCardById to the next await
DeleteTextCardResume_KeepsIndex(card, tr, rev) ==
    IF card = NoCard
    THEN [found |-> FALSE, tree |-> tr, enq |-> <<>>, revision |-> rev]
    ELSE [found |-> TRUE, tree |-> tr,
          enq |-> <<[op |-> "delete", table |-> "textCards", then |-> "deleteTextCard",
                     id |-> card.id]>>,
          revision |-> rev]

DeleteTextCardResume(card, tr, rev) ==
    IF card = NoCard
    THEN [found |-> FALSE, tree |-> tr, enq |-> <<>>, revision |-> rev]
    ELSE [found |-> TRUE, tree |-> TreeRemove(tr, card.ref, FALSE),
          enq |-> <<[op |-> "delete", table |-> "textCards", then |-> "deleteTextCard",
                     id |-> card.id]>>,
          revision |-> rev]

\* db.textCards.get(id) of a deleteTextCard answers
DeleteTextCardLookup(i) ==
    /\ dbq[i].op = "get" /\ dbq[i].then = "deleteTextCard"
    /\ Ready(dbq, i)
    /\ LET card == GetTextCardById(db, tree, dbq[i].id)
           r == DeleteTextCardResume(card, tree, revision)
           q == r.found /\ ~Returned(GetVisibleItems(r.tree, card), card.ref)
       IN  /\ tree' = r.tree
           /\ revision' = r.revision
           /\ dbq' = Without(dbq, i)
                      \o Marked(r.enq, [queryable |-> q, at |-> dbq[i].at,
                                        indexed |-> Unindexed(r.tree, dbq[i].id)])
           /\ lastOp' = IF r.found
                        THEN [op |-> "deleteIndexed", id |-> dbq[i].id]
                        ELSE [op |-> "deleteMiss", id |-> dbq[i].id, threw |-> FALSE]
    /\ UNCHANGED <<elementVars, zoomVars, viewVars, landVars, drawVars, db, initialized, nextId, nextRef, calls, initCalls, addBeforeInit>>

\* db.textCards.delete(id) completes and the method notifies
DeleteTextCardDone(i) ==
    /\ dbq[i].op = "delete"
    /\ Ready(dbq, i)
    /\ db' = [db EXCEPT ![dbq[i].table] = DeleteRow(@, dbq[i].id)]
    /\ dbq' = Without(dbq, i)
    /\ revision' = revision + 1
    /\ lastOp' = [op |-> "deleteDone", id |-> dbq[i].id, queryable |-> dbq[i].queryable,
                  alone |-> Alone(dbq[i].at), revAtCall |-> dbq[i].at.revision]
    /\ UNCHANGED <<elementVars, zoomVars, viewVars, landVars, drawVars, tree, initialized, nextId, nextRef, calls, initCalls, addBeforeInit>>

\* the put of an addStroke or addTextCard is rejected: the write is lost and
\* nothing hears of it
SaveFails(i) ==
    /\ dbq[i].op = "put" /\ dbq[i].then = "none"
    /\ Ready(dbq, i)
    /\ dbq' = Without(dbq, i)
    /\ lastOp' = [op |-> "saveLost", id |-> dbq[i].row.id]
    /\ UNCHANGED <<elementVars, zoomVars, viewVars, landVars, drawVars, tree, db, revision, initialized, nextId, nextRef,
                   calls, initCalls, addBeforeInit>>

\* the put of an updateTextCard is rejected: the await of saveItemToDB
\* throws and updateTextCard rejects
UpdateTextCardSaveFails(i) ==
    /\ dbq[i].op = "put" /\ dbq[i].then = "updateTextCard"
    /\ Ready(dbq, i)
    /\ dbq' = Without(dbq, i)
    /\ lastOp' = [op |-> "updateFailed", id |-> dbq[i].row.id,
                  alone |-> Alone(dbq[i].at), threw |-> TRUE]
    /\ UNCHANGED <<elementVars, zoomVars, viewVars, landVars, drawVars, tree, db, revision, initialized, nextId, nextRef,
                   calls, initCalls, addBeforeInit>>

\* db.textCards.delete(id) is rejected: deleteTextCard rejects
DeleteTextCardFails(i) ==
    /\ dbq[i].op = "delete"
    /\ Ready(dbq, i)
    /\ dbq' = Without(dbq, i)
    /\ lastOp' = [op |-> "deleteFailed", id |-> dbq[i].id,
                  alone |-> Alone(dbq[i].at), threw |-> TRUE]
    /\ UNCHANGED <<elementVars, zoomVars, viewVars, landVars, drawVars, tree, db, revision, initialized, nextId, nextRef,
                   calls, initCalls, addBeforeInit>>

\* init() up to its await of Promise.all([strokes.toArray(), textCards.toArray()])
ModelInit ==
    /\ dbq' = dbq \o <<[op |-> "toArray", table |-> "strokes", then |-> "init",
                        call |-> initCalls + 1, waiting |-> TRUE, other |-> <<>>],
                       [op |-> "toArray", table |-> "textCards", then |-> "init",
                        call |-> initCalls + 1, waiting |-> TRUE, other |-> <<>>]>>
    /\ initCalls' = initCalls + 1
    /\ addBeforeInit' = (addBeforeInit \/ nextId > 1)
    /\ calls' = calls + 1
    /\ lastOp' = [op |-> "init"]
    /\ UNCHANGED <<elementVars, zoomVars, viewVars, landVars, drawVars, tree, db, revision, initialized, nextId, nextRef>>

\* the first toArray of an init() answers; Promise.all waits for the other
InitRead(i) ==
    /\ dbq[i].op = "toArray" /\ dbq[i].then = "init" /\ dbq[i].waiting
    /\ Ready(dbq, i)
    /\ LET rest == Without(dbq, i)
       IN  dbq' = [k \in DOMAIN rest |->
                     IF /\ rest[k].op = "toArray" /\ rest[k].then = "init"
                        /\ rest[k].call = dbq[i].call
                     THEN [rest[k] EXCEPT !.waiting = FALSE, !.other = db[dbq[i].table]]
                     ELSE rest[k]]
    /\ lastOp' = [op |-> "initRead"]
    /\ UNCHANGED <<elementVars, zoomVars, viewVars, landVars, drawVars, tree, db, revision, initialized, nextId, nextRef, calls,
                   initCalls, addBeforeInit>>

\* the objects getQuadItem makes of rows, the first with identity ref
QuadItems(rows, ref) == [k \in DOMAIN rows |-> GetQuadItem(rows[k], ref + k - 1)]

\* the finally block of init(), had its two statements stood at the end of
\* the try block
InitFinally_AtEndOfTry(ok, init, rev) ==
    IF ok THEN [initialized |-> TRUE, revision |-> rev + 1]
    ELSE [initialized |-> init, revision |-> rev]
\* the finally block of init(): setInitialized(true) and incrementRevision(),
\* whether the try block threw or not
InitFinally(ok, init, rev) == [initialized |-> TRUE, revision |-> rev + 1]

\* the second toArray of an init() answers: the loop over
\* [...allStrokes, ...allCards] and the finally block
InitLoaded(i) ==
    /\ dbq[i].op = "toArray" /\ dbq[i].then = "init" /\ ~dbq[i].waiting
    /\ Ready(dbq, i)
    /\ LET rows       == db[dbq[i].table]
           allStrokes == IF dbq[i].table = "strokes" THEN rows ELSE dbq[i].other
           allCards   == IF dbq[i].table = "textCards" THEN rows ELSE dbq[i].other
           items      == QuadItems(allStrokes \o allCards, nextRef)
       IN  /\ tree' = TreeInsertAll(tree, items)
           /\ nextRef' = nextRef + Len(items)
    /\ dbq' = Without(dbq, i)
    /\ initialized' = InitFinally(TRUE, initialized, revision).initialized
    /\ revision' = InitFinally(TRUE, initialized, revision).revision
    /\ lastOp' = [op |-> "initDone", queryable |-> TRUE]
    /\ UNCHANGED <<elementVars, zoomVars, viewVars, landVars, drawVars, db, nextId, calls, initCalls, addBeforeInit>>

\* a toArray of an init() is rejected: Promise.all rejects at once, the
\* catch block logs, the finally block runs; the answer of the other
\* toArray, if still to come, has nobody waiting for it
InitFails(i) ==
    /\ dbq[i].op = "toArray" /\ dbq[i].then = "init"
    /\ Ready(dbq, i)
    /\ LET rest == Without(dbq, i)
       IN  dbq' = [k \in DOMAIN rest |->
                     IF /\ rest[k].op = "toArray" /\ rest[k].then = "init"
                        /\ rest[k].call = dbq[i].call
                     THEN [rest[k] EXCEPT !.then = "none"]
                     ELSE rest[k]]
    /\ initialized' = InitFinally(FALSE, initialized, revision).initialized
    /\ revision' = InitFinally(FALSE, initialized, revision).revision
    /\ lastOp' = [op |-> "initFailed", early |-> dbq[i].waiting]
    /\ UNCHANGED <<elementVars, zoomVars, viewVars, landVars, drawVars, tree, db, nextId, nextRef, calls, initCalls,
                   addBeforeInit>>

\* the other toArray of an init() that failed answers or is rejected
InitReadDropped(i) ==
    /\ dbq[i].op = "toArray" /\ dbq[i].then = "none"
    /\ Ready(dbq, i)
    /\ dbq' = Without(dbq, i)
    /\ lastOp' = [op |-> "initReadDropped"]
    /\ UNCHANGED <<elementVars, zoomVars, viewVars, landVars, drawVars, tree, db, revision, initialized, nextId, nextRef, calls,
                   initCalls, addBeforeInit>>

\* loadFromFile(file) on a file importFromJson accepts, up to the await of
\* the import transaction
LoadFromFileAwaits(file) ==
    /\ ValidFile(file)
    /\ dbq' = Append(dbq, [op |-> "import", table |-> "all", then |-> "loadFromFile",
                           file |-> file, callNo |-> calls + 1, quiet |-> dbq = <<>>,
                           indexed |-> /\ \A it \in FileItems(file) : Indexed(tree, it)
                                       /\ Len(TreeObjects(tree))
                                              = Cardinality(FileItems(file))])
    /\ calls' = calls + 1
    /\ lastOp' = [op |-> "loadFromFile"]
    /\ UNCHANGED <<tree, db, revision, initialized, nextId, nextRef, initCalls,
                   addBeforeInit>>

\* loadFromFile(file) called on its own
LoadFromFile(file) ==
    /\ LoadFromFileAwaits(file)
    /\ UNCHANGED <<elementVars, zoomVars, viewVars, landVars, drawVars>>

\* loadFromFile(file) on a file importFromJson rejects: the error is re-thrown
LoadFromFileThrows(file) ==
    /\ ~ValidFile(file)
    /\ calls' = calls + 1
    /\ lastOp' = [op |-> "loadFailed", threw |-> TRUE, file |-> file, stage |-> "validation"]
    /\ UNCHANGED <<tree, db, dbq, revision, initialized, nextId, nextRef, initCalls,
                   addBeforeInit>>

LoadFromFileRejected(file) ==
    /\ LoadFromFileThrows(file)
    /\ UNCHANGED <<elementVars, zoomVars, viewVars, landVars, drawVars>>

\* the import transaction commits: tree.clear() and the await of
\* db.strokes.toArray()
LoadImported(i) ==
    /\ dbq[i].op = "import"
    /\ Ready(dbq, i)
    /\ ImportFromJson(db, dbq[i].file).ok
    /\ db' = ImportFromJson(db, dbq[i].file).db
    /\ tree' = EmptyNode
    /\ dbq' = Append(Without(dbq, i),
                     [op |-> "toArray", table |-> "strokes", then |-> "loadFromFile",
                      file |-> dbq[i].file, callNo |-> dbq[i].callNo,
                      quiet |-> dbq[i].quiet])
    /\ lastOp' = [op |-> "loadImported"]
    /\ UNCHANGED <<elementVars, zoomVars, viewVars, landVars, drawVars, revision, initialized, nextId, nextRef, calls, initCalls,
                   addBeforeInit>>

\* the import transaction is aborted: importFromJson rejects and the catch
\* block of loadFromFile re-throws
LoadImportFails(i) ==
    /\ dbq[i].op = "import"
    /\ Ready(dbq, i)
    /\ ~ImportFromJson(db, dbq[i].file).ok
    /\ db' = ImportFromJson(db, dbq[i].file).db
    /\ dbq' = Without(dbq, i)
    /\ lastOp' = [op |-> "loadFailed", threw |-> TRUE, file |-> dbq[i].file,
                  stage |-> "transaction"]
    /\ UNCHANGED <<elementVars, zoomVars, viewVars, landVars, drawVars, tree, revision, initialized, nextId, nextRef, calls,
                   initCalls, addBeforeInit>>

\* db.strokes.toArray() of a loadFromFile answers: the loop that inserts
\* the strokes, and the notification
LoadFromFileResolves(i) ==
    /\ dbq[i].op = "toArray" /\ dbq[i].then = "loadFromFile"
    /\ Ready(dbq, i)
    /\ LET items == QuadItems(db.strokes, nextRef)
           tr    == TreeInsertAll(tree, items)
       IN  /\ tree' = tr
           /\ nextRef' = nextRef + Len(items)
           /\ lastOp' = [op |-> "loadDone", file |-> dbq[i].file,
                         alone |-> dbq[i].quiet /\ calls = dbq[i].callNo,
                         queryable |-> \A it \in FileItems(dbq[i].file) :
                                           ReturnedId(GetVisibleItems(tr, it), it.id)]
    /\ dbq' = Without(dbq, i)
    /\ revision' = revision + 1
    /\ UNCHANGED <<db, initialized, nextId, calls, initCalls, addBeforeInit>>

LoadRebuilt(i) ==
    /\ LoadFromFileResolves(i)
    /\ UNCHANGED <<elementVars, zoomVars, viewVars, landVars, drawVars>>

\* the files of the input element when its "change" event fires: none, or
\* the one file chosen
ImportFiles == {<<>>} \cup {<<file>> : file \in Files}

\* the "change" listener of the import input up to its return or its await
\* of model.loadFromFile
ImportChange(files) ==
    /\ view.mainCanvas
    /\ frozen' = TRUE
    /\ drawState' = [drawState EXCEPT !.active = FALSE]
    /\ IF Len(files) = 0 THEN UNCHANGED storeVars
       ELSE IF ValidFile(files[1]) THEN LoadFromFileAwaits(files[1])
       ELSE LoadFromFileThrows(files[1])
    /\ UNCHANGED <<elementVars, zoomVars, worldX, worldY, view, lastWheel, landVars, strokeCache,
                   graphics, pointerLog, lastFrame, toolVars, overlay>>

\* loadFromFile resolves and the listener goes on after its await
ImportChangeResumes(i) ==
    /\ LoadFromFileResolves(i)
    /\ frozen' = FALSE
    /\ UNCHANGED <<elementVars, zoomVars, worldX, worldY, view, lastWheel, landVars, drawVars>>

\* getVisibleItems(bounds) as a view calls it when it renders
QueryBounds ==
    {[x |-> -5, y |-> -5, width |-> 20, height |-> 20],
     [x |-> 100, y |-> 100, width |-> 5, height |-> 5],
     [x |-> -200, y |-> -200, width |-> 5, height |-> 5]}

Query(bounds) ==
    /\ lastOp' = [op |-> "getVisibleItems", bounds |-> bounds,
                  result |-> GetVisibleItems(tree, bounds)]
    /\ UNCHANGED <<elementVars, zoomVars, viewVars, landVars, drawVars, tree, db, dbq, revision, initialized, nextId, nextRef, calls,
                   initCalls, addBeforeInit>>

----------------------------------------------------------------------------
(***************************************************************************)
(* The procedural landmark generator (canvas/fractalLandmarks.ts).         *)
(* 32-bit words are pairs <<high, low>> of 16-bit halves.  A draw of the   *)
(* generator is the word u, for the number u / 2^32 of the code; the       *)
(* arithmetic on draws uses its 16 leading bits.  Lengths are in units of  *)
(* 1e7 world units, rounded down; Math.cos and Math.sin are taken from a   *)
(* table of 16 directions, in thousandths.                                 *)
(***************************************************************************)
Half == 2^16

\* a value the code computes once and keeps in a local variable: Bind(v, F)
\* is F of the value of v, with v computed once, where a LET is computed
\* again at each of its uses
Bind(v, F(_)) == CHOOSE r \in {F(x) : x \in {v}} : TRUE

\* x ^ y and x | y on bits, on groups of 4 bits and on halves
XorBit(x, y) == (x + y) % 2
OrBit(x, y) == IF x + y > 0 THEN 1 ELSE 0
Xor4 ==
    [x \in 0..15, y \in 0..15 |->
        XorBit(x % 2, y % 2) + 2 * XorBit((x \div 2) % 2, (y \div 2) % 2)
          + 4 * XorBit((x \div 4) % 2, (y \div 4) % 2) + 8 * XorBit(x \div 8, y \div 8)]
Or4 ==
    [x \in 0..15, y \in 0..15 |->
        OrBit(x % 2, y % 2) + 2 * OrBit((x \div 2) % 2, (y \div 2) % 2)
          + 4 * OrBit((x \div 4) % 2, (y \div 4) % 2) + 8 * OrBit(x \div 8, y \div 8)]
Xor16(x, y) ==
    Xor4[x % 16, y % 16] + 16 * Xor4[(x \div 16) % 16, (y \div 16) % 16]
      + 256 * Xor4[(x \div 256) % 16, (y \div 256) % 16]
      + 4096 * Xor4[x \div 4096, y \div 4096]
Or16(x, y) ==
    Or4[x % 16, y % 16] + 16 * Or4[(x \div 16) % 16, (y \div 16) % 16]
      + 256 * Or4[(x \div 256) % 16, (y \div 256) % 16]
      + 4096 * Or4[x \div 4096, y \div 4096]

\* a ^ b, a | b, a + b, a >>> n (0 < n < 16), Math.imul(a, b) on 32-bit words
Xor32(a, b) == <<Xor16(a[1], b[1]), Xor16(a[2], b[2])>>
Or32(a, b) == <<Or16(a[1], b[1]), Or16(a[2], b[2])>>
Add32(a, b) ==
    LET l == a[2] + b[2]
    IN  <<(a[1] + b[1] + (l \div Half)) % Half, l % Half>>
Shr32(a, n) ==
    <<a[1] \div (2^n), (a[2] \div (2^n)) + (a[1] % (2^n)) * (2^(16 - n))>>
\* the product of two halves, as a word, and its low half alone
Mul16(x, y) ==
    LET p0 == (x % 256) * y
        p1 == (x \div 256) * y
        l  == (p0 % Half) + (p1 % 256) * 256
    IN  <<(p0 \div Half) + (p1 \div 256) + (l \div Half), l % Half>>
Imul(a, b) ==
    LET ll == Mul16(a[2], b[2])
    IN  <<(ll[1] + Mul16(a[1], b[2])[2] + Mul16(a[2], b[1])[2]) % Half, ll[2]>>

\* the word of a number below 2^31
Word(n) == <<n \div Half, n % Half>>

\* makeRng(seed): Mulberry32.  The closure's variable s is the state; a
\* call of the closure gives the next state and the draw
MakeRng(seed) == seed
Rng(s) ==
    Bind(Add32(s, <<27947, 31221>>), LAMBDA s1 :
    Bind(Imul(Xor32(s1, Shr32(s1, 15)), Or32(<<0, 1>>, s1)), LAMBDA t1 :
    Bind(Imul(Xor32(t1, Shr32(t1, 7)), Or32(<<0, 61>>, t1)), LAMBDA m2 :
    Bind(Xor32(t1, Add32(t1, m2)), LAMBDA t2 :
        [s |-> s1, u |-> Xor32(t2, Shr32(t2, 14))]))))

\* hashString(str) over the character codes of str: FNV-1a
RECURSIVE HashFrom(_, _)
HashFrom(h, codes) ==
    IF codes = <<>> THEN h
    ELSE Bind(<<Imul(Xor32(h, <<0, Head(codes)>>), <<256, 403>>), Tail(codes)>>,
              LAMBDA next : HashFrom(next[1], next[2]))
HashString(codes) == HashFrom(<<33052, 40389>>, codes)

\* the character codes of the decimal digits of n
RECURSIVE Digits(_)
Digits(n) == IF n < 10 THEN <<48 + n>> ELSE Append(Digits(n \div 10), 48 + (n % 10))

\* node identifiers are kept as paths: <<i>> is `L0_i`, <<i, k>> is
\* `L0_i_k`; IdChars gives the character codes of the string
RECURSIVE IdChars(_)
IdChars(id) ==
    IF Len(id) = 1 THEN <<76, 48, 95>> \o Digits(id[1])
    ELSE IdChars(SubSeq(id, 1, Len(id) - 1)) \o <<95>> \o Digits(id[Len(id)])

MakeStringRng(id) == MakeRng(HashString(IdChars(id)))
MakeNodeRng(globalSeed, node) ==
    MakeRng(HashString(IdChars(node.id) \o <<35>> \o Digits(globalSeed)))

\* randInt(rng, min, max) of a draw
RandInt(u, min, max) == ((u[1] * (max - min + 1)) \div Half) + min

\* lerp(a, b, t) of a draw
Lerp(a, b, u) == a + (((b - a) * u[1]) \div Half)

\* Math.cos(theta) and Math.sin(theta) for theta = draw * 2 PI, in thousandths
CosTable == <<1000, 924, 707, 383, 0, -383, -707, -924,
              -1000, -924, -707, -383, 0, 383, 707, 924>>
Cos(u) == CosTable[(u[1] \div 4096) + 1]
Sin(u) == CosTable[((u[1] \div 4096 + 12) % 16) + 1]

\* x * c / 1000 for a signed c, rounded towards zero as the product of
\* the code is close to
Scaled(x, c) == IF c >= 0 THEN (x * c) \div 1000 ELSE -((x * (-c)) \div 1000)

COLOR_EVEN == 267532
COLOR_ODD == 0
MAX_PLACEMENT_ATTEMPTS == 50

\* createFractalLandmarks: fullConfig (fractions as <<numerator, denominator>>)
FullConfig ==
    [rootCount |-> 5,
     rootRadiusRange |-> <<800, 1600>>,
     childRadiusFrac |-> <<<<1, 10>>, <<3, 20>>>>,
     childCountRange |-> <<6, 9>>,
     childAreaFractionMax |-> <<45, 100>>,
     childPlacementScale |-> <<85, 100>>,
     blobSpacing |-> <<11, 10>>,
     minPixelRadius |-> 2,
     maxDepth |-> 100,
     segments |-> 50]

\* mutant: a node is named by its index alone, without its parent's name
BlobNode_IndexOnly(id, level, parentId, cx, cy, r, color) ==
    [id |-> <<id[Len(id)]>>, level |-> level, parentId |-> parentId, cx |-> cx, cy |-> cy,
     radius |-> r,
     bbox |-> [x |-> cx - r, y |-> cy - r, width |-> r * 2, height |-> r * 2],
     generatedChildren |-> FALSE, children |-> <<>>, color |-> color]

BlobNode(id, level, parentId, cx, cy, r, color) ==
    [id |-> id, level |-> level, parentId |-> parentId, cx |-> cx, cy |-> cy, radius |-> r,
     bbox |-> [x |-> cx - r, y |-> cy - r, width |-> r * 2, height |-> r * 2],
     generatedChildren |-> FALSE, children |-> <<>>, color |-> color]

\* distance(x1, y1, x2, y2) < d and distance(x1, y1, x2, y2) > d
Nearer_Never(x1, y1, x2, y2, d) == FALSE
Nearer(x1, y1, x2, y2, d) ==
    d > 0 /\ (x2 - x1) * (x2 - x1) + (y2 - y1) * (y2 - y1) < d * d
Farther(x1, y1, x2, y2, d) ==
    d < 0 \/ (x2 - x1) * (x2 - x1) + (y2 - y1) * (y2 - y1) > d * d

\* one attempt of the retry loop of createFractalLandmarks for root i, with
\* generator state s and the roots placed so far: the node tried, whether
\* it collides, and the generator state after the attempt
PlacementAttempt(config, i, s, roots) ==
    Bind(Rng(s), LAMBDA d1 :
    Bind(Rng(d1.s), LAMBDA d2 :
    Bind(Rng(d2.s), LAMBDA d3 :
        LET r  == Lerp(config.rootRadiusRange[1], config.rootRadiusRange[2], d1.u)
            dist == (r * (3 * Half + 5 * d3.u[1])) \div (2 * Half)
            cx == IF i = 0 THEN 0 ELSE Scaled(dist, Cos(d2.u))
            cy == IF i = 0 THEN 0 ELSE Scaled(dist, Sin(d2.u))
        IN  [node |-> BlobNode(<<i>>, 0, <<>>, cx, cy, r, COLOR_EVEN),
             isColliding |->
                 \E k \in DOMAIN roots :
                     Nearer(cx, cy, roots[k].cx, roots[k].cy,
                            ((r + roots[k].radius) * config.blobSpacing[1])
                                \div config.blobSpacing[2]),
             s |-> IF i = 0 THEN d1.s ELSE d3.s])))

\* a loop of the code: Body is one pass over the loop's variables st, of
\* which st.done says that the loop has ended; the loop is run for up to
\* 2^n passes, half of them after the other half
RECURSIVE Loop(_, _, _)
Loop(Body(_), st, n) ==
    IF st.done THEN st
    ELSE IF n = 0 THEN Body(st)
    ELSE Bind(Loop(Body, st, n - 1), LAMBDA half : Loop(Body, half, n - 1))

\* the root generation loop of createFractalLandmarks, one pass of its
\* inner loop: root i, attempt number attempt, generator state s, the
\* roots placed so far, the attempts made for each root and the roots
\* warned about
PlaceRootsPass(config, st) ==
    IF st.i >= config.rootCount THEN [st EXCEPT !.done = TRUE]
    ELSE IF st.attempt >= MAX_PLACEMENT_ATTEMPTS
    THEN [st EXCEPT !.i = @ + 1, !.attempt = 0,
                    !.attempts = Append(@, st.attempt), !.warned = @ \cup {st.i}]
    ELSE Bind(PlacementAttempt(config, st.i, st.s, st.roots), LAMBDA try :
             IF try.isColliding
             THEN [st EXCEPT !.attempt = @ + 1, !.s = try.s]
             ELSE [st EXCEPT !.i = @ + 1, !.attempt = 0, !.s = try.s,
                             !.roots = Append(@, try.node),
                             !.attempts = Append(@, st.attempt + 1)])

\* the loop over all roots: at most rootCount * MAX_PLACEMENT_ATTEMPTS
\* attempts, a pass to go to the next root after the last attempt and one
\* to end
PlaceRoots(config, s) ==
    Loop(LAMBDA st : PlaceRootsPass(config, st),
         [i |-> 0, attempt |-> 0, s |-> s, roots |-> <<>>, attempts |-> <<>>,
          warned |-> {}, done |-> FALSE],
         9)

\* the while loop of generateChildren, with the generator state s, the
\* children produced so far, the attempts made and the area used (areas
\* without their factor PI): the children and the attempts at its end
RECURSIVE ChildrenLoop(_, _, _, _, _, _, _)
ChildrenLoop_Unchecked(config, parent, targetCount, s, children, attempts, usedArea) ==
    IF ~(Len(children) < targetCount /\ attempts < targetCount * 10)
    THEN [children |-> children, attempts |-> attempts]
    ELSE Bind(Rng(s), LAMBDA d1 :
         Bind(Rng(d1.s), LAMBDA d2 :
         Bind(Rng(d2.s), LAMBDA d3 :
         LET minFrac == config.childRadiusFrac[1]
             maxFrac == config.childRadiusFrac[2]
             \* parent.radius * lerp(minFrac, maxFrac, rng())
             r == ((parent.radius * minFrac[1]) \div minFrac[2])
                    + ((parent.radius * (maxFrac[1] * minFrac[2] - minFrac[1] * maxFrac[2])
                          * d1.u[1]) \div (maxFrac[2] * minFrac[2] * Half))
             maxCenterDist == IF parent.radius - r > 0 THEN parent.radius - r ELSE 0
             dist == (d3.u[1] * parent.radius) \div Half
             cx == parent.cx + Scaled(dist, Cos(d2.u))
             cy == parent.cy + Scaled(dist, Sin(d2.u))
             outside == Farther(cx, cy, parent.cx, parent.cy, parent.radius - r)
             area == r * r
             maxArea == (parent.radius * parent.radius * config.childAreaFractionMax[1])
                           \div config.childAreaFractionMax[2]
             level == parent.level + 1
             node == BlobNode(Append(parent.id, Len(children)), level, parent.id, cx, cy, r,
                              IF level % 2 = 0 THEN COLOR_EVEN ELSE COLOR_ODD)
         IN  Bind(Append(children, node),
                  LAMBDA produced :
                      ChildrenLoop(config, parent, targetCount, d3.s, produced,
                                   attempts + 1, usedArea + area)))))

ChildrenLoop(config, parent, targetCount, s, children, attempts, usedArea) ==
    IF ~(Len(children) < targetCount /\ attempts < targetCount * 10)
    THEN [children |-> children, attempts |-> attempts]
    ELSE Bind(Rng(s), LAMBDA d1 :
         Bind(Rng(d1.s), LAMBDA d2 :
         Bind(Rng(d2.s), LAMBDA d3 :
         LET minFrac == config.childRadiusFrac[1]
             maxFrac == config.childRadiusFrac[2]
             \* parent.radius * lerp(minFrac, maxFrac, rng())
             r == ((parent.radius * minFrac[1]) \div minFrac[2])
                    + ((parent.radius * (maxFrac[1] * minFrac[2] - minFrac[1] * maxFrac[2])
                          * d1.u[1]) \div (maxFrac[2] * minFrac[2] * Half))
             maxCenterDist == IF parent.radius - r > 0 THEN parent.radius - r ELSE 0
             dist == (((d3.u[1] * maxCenterDist) \div Half) * config.childPlacementScale[1])
                        \div config.childPlacementScale[2]
             cx == parent.cx + Scaled(dist, Cos(d2.u))
             cy == parent.cy + Scaled(dist, Sin(d2.u))
             outside == Farther(cx, cy, parent.cx, parent.cy, parent.radius - r)
             area == r * r
             maxArea == (parent.radius * parent.radius * config.childAreaFractionMax[1])
                           \div config.childAreaFractionMax[2]
             level == parent.level + 1
             node == BlobNode(Append(parent.id, Len(children)), level, parent.id, cx, cy, r,
                              IF level % 2 = 0 THEN COLOR_EVEN ELSE COLOR_ODD)
         IN  IF outside
             THEN ChildrenLoop(config, parent, targetCount, d3.s, children, attempts + 1, usedArea)
             ELSE IF usedArea + area > maxArea
             THEN [children |-> children, attempts |-> attempts + 1]
             ELSE Bind(Append(children, node),
                       LAMBDA produced :
                           ChildrenLoop(config, parent, targetCount, d3.s, produced,
                                        attempts + 1, usedArea + area)))))

\* generateChildren(parent, ctx): the children of parent, made with the
\* generator of parent's identifier and the seed, with the target count
\* drawn and the attempts the loop made
GenerateChildren_SeededByNodeCount(parent, ctx) ==
    Bind(Rng(MakeRng(Word(Cardinality(DOMAIN ctx.nodes)))), LAMBDA first :
    Bind(RandInt(first.u, ctx.config.childCountRange[1], ctx.config.childCountRange[2]),
         LAMBDA targetCount :
    Bind(ChildrenLoop(ctx.config, parent, targetCount, first.s, <<>>, 0, 0), LAMBDA loop :
        [children |-> loop.children, targetCount |-> targetCount,
         attempts |-> loop.attempts])))
GenerateChildren(parent, ctx) ==
    Bind(Rng(MakeNodeRng(ctx.seed, parent)), LAMBDA first :
    Bind(RandInt(first.u, ctx.config.childCountRange[1], ctx.config.childCountRange[2]),
         LAMBDA targetCount :
    Bind(ChildrenLoop(ctx.config, parent, targetCount, first.s, <<>>, 0, 0), LAMBDA loop :
        [children |-> loop.children, targetCount |-> targetCount,
         attempts |-> loop.attempts])))

\* makeNodePolygon(rng, radius, segments): point i is at angle
\* (i / segments) * 2 PI and at distance rr = radius * (0.8 + rng() * 0.2);
\* the points are kept as these distances
RECURSIVE PolygonFrom(_, _, _)
PolygonFrom(s, radius, n) ==
    IF n = 0 THEN [s |-> s, pts |-> <<>>]
    ELSE IF n = 1
    THEN Bind(Rng(s), LAMBDA d :
             [s |-> d.s, pts |-> <<(radius * (4 * Half + d.u[1])) \div (5 * Half)>>])
    ELSE Bind(PolygonFrom(s, radius, n \div 2), LAMBDA a :
         Bind(PolygonFrom(a.s, radius, n - (n \div 2)), LAMBDA b :
             [s |-> b.s, pts |-> a.pts \o b.pts]))
MakeNodePolygon(s, radius, segments) == PolygonFrom(s, radius, segments).pts

\* ensureGraphics(node, ctx): the Graphics of the node, drawn once; with
\* it the number of Graphics objects made for the identifier and the
\* number of times its polygon was drawn
EnsureGraphics_Redraws(node, gfx, config) ==
    (node.id :> [drawn |-> TRUE, visible |-> TRUE, x |-> node.cx, y |-> node.cy,
                 pts |-> MakeNodePolygon(MakeStringRng(node.id), node.radius,
                                         config.segments),
                 color |-> node.color, zIndex |-> node.level,
                 objects |-> IF node.id \in DOMAIN gfx THEN gfx[node.id].objects ELSE 1,
                 draws |-> IF node.id \in DOMAIN gfx THEN gfx[node.id].draws + 1
                           ELSE 1]) @@ gfx
EnsureGraphics(node, gfx, config) ==
    IF node.id \in DOMAIN gfx /\ gfx[node.id].drawn
    THEN [gfx EXCEPT ![node.id].visible = TRUE]
    ELSE (node.id :> [drawn |-> TRUE, visible |-> TRUE, x |-> node.cx, y |-> node.cy,
                      pts |-> MakeNodePolygon(MakeStringRng(node.id), node.radius,
                                              config.segments),
                      color |-> node.color, zIndex |-> node.level,
                      objects |-> IF node.id \in DOMAIN gfx THEN gfx[node.id].objects ELSE 1,
                      draws |-> IF node.id \in DOMAIN gfx THEN gfx[node.id].draws + 1
                                ELSE 1]) @@ gfx

\* a * b < c * d for naturals whose products may exceed 32 bits
ProdLess(a, b, c, d) ==
    IF a < 2 ^ 15 /\ b < 2 ^ 15 /\ c < 2 ^ 15 /\ d < 2 ^ 15
    THEN a * b < c * d
    ELSE BCmp(BMul(BigOf(a), BigOf(b)), BMul(BigOf(c), BigOf(d))) < 0

\* intersects(a, b)
Intersects_Always(a, b) == TRUE
Intersects(a, b) ==
    ~(a.x + a.width < b.x \/ a.x > b.x + b.width
        \/ a.y + a.height < b.y \/ a.y > b.y + b.height)

\* visitNode(node, ctx) and the loop over a list of nodes, on the context
\* in acc with the visible identifiers gathered so far and the calls of
\* generateChildren made so far; worldZoom is the fraction
\* zoom[1] / zoom[2], in pixels per unit of length
RECURSIVE VisitNode(_, _, _, _), VisitAll(_, _, _, _)
VisitNode_Regenerates(id, acc, viewRect, zoom) ==
    LET node   == acc.ctx.nodes[id]
        config == acc.ctx.config
        \* radius < minPixelRadius / worldZoom
        tooSmall == ProdLess(node.radius, zoom[1], config.minPixelRadius, zoom[2])
        \* radius * childRadiusFrac[0] > minPixelRadius / worldZoom
        roomy  == ProdLess(config.minPixelRadius * config.childRadiusFrac[1][2], zoom[2],
                           node.radius * config.childRadiusFrac[1][1], zoom[1])
        grows  == node.level < config.maxDepth /\ roomy
    IN  IF ~Intersects(node.bbox, viewRect) THEN acc
        ELSE IF tooSmall THEN acc
        ELSE Bind(EnsureGraphics(node, acc.ctx.gfx, config), LAMBDA gfx :
             Bind(IF grows THEN GenerateChildren(node, acc.ctx)
                  ELSE [children |-> <<>>, targetCount |-> 0, attempts |-> 0],
                  LAMBDA made :
             Bind([ctx |->
                     IF grows
                     THEN LET kids == made.children
                          IN  [acc.ctx EXCEPT
                                 !.gfx = gfx,
                                 !.nodes =
                                     [n \in {kids[k].id : k \in DOMAIN kids} |->
                                         kids[CHOOSE k \in DOMAIN kids : kids[k].id = n]]
                                     @@ [acc.ctx.nodes EXCEPT
                                           ![id].generatedChildren = TRUE,
                                           ![id].children =
                                               [k \in DOMAIN kids |-> kids[k].id]]]
                     ELSE [acc.ctx EXCEPT !.gfx = gfx],
                   visibleIds |-> acc.visibleIds \cup {id},
                   generated |->
                       IF grows
                       THEN Append(acc.generated,
                                   [id |-> id, targetCount |-> made.targetCount,
                                    attempts |-> made.attempts])
                       ELSE acc.generated],
                  LAMBDA acc1 :
                      VisitAll(acc1.ctx.nodes[id].children, acc1, viewRect, zoom))))
VisitNode(id, acc, viewRect, zoom) ==
    LET node   == acc.ctx.nodes[id]
        config == acc.ctx.config
        \* radius < minPixelRadius / worldZoom
        tooSmall == ProdLess(node.radius, zoom[1], config.minPixelRadius, zoom[2])
        \* radius * childRadiusFrac[0] > minPixelRadius / worldZoom
        roomy  == ProdLess(config.minPixelRadius * config.childRadiusFrac[1][2], zoom[2],
                           node.radius * config.childRadiusFrac[1][1], zoom[1])
        grows  == node.level < config.maxDepth /\ ~node.generatedChildren /\ roomy
    IN  IF ~Intersects(node.bbox, viewRect) THEN acc
        ELSE IF tooSmall THEN acc
        ELSE Bind(EnsureGraphics(node, acc.ctx.gfx, config), LAMBDA gfx :
             Bind(IF grows THEN GenerateChildren(node, acc.ctx)
                  ELSE [children |-> <<>>, targetCount |-> 0, attempts |-> 0],
                  LAMBDA made :
             Bind([ctx |->
                     IF grows
                     THEN LET kids == made.children
                          IN  [acc.ctx EXCEPT
                                 !.gfx = gfx,
                                 !.nodes =
                                     [n \in {kids[k].id : k \in DOMAIN kids} |->
                                         kids[CHOOSE k \in DOMAIN kids : kids[k].id = n]]
                                     @@ [acc.ctx.nodes EXCEPT
                                           ![id].generatedChildren = TRUE,
                                           ![id].children =
                                               [k \in DOMAIN kids |-> kids[k].id]]]
                     ELSE [acc.ctx EXCEPT !.gfx = gfx],
                   visibleIds |-> acc.visibleIds \cup {id},
                   generated |->
                       IF grows
                       THEN Append(acc.generated,
                                   [id |-> id, targetCount |-> made.targetCount,
                                    attempts |-> made.attempts])
                       ELSE acc.generated],
                  LAMBDA acc1 :
                      VisitAll(acc1.ctx.nodes[id].children, acc1, viewRect, zoom))))
VisitAll(ids, acc, viewRect, zoom) ==
    IF ids = <<>> THEN acc
    ELSE Bind(VisitNode(Head(ids), acc, viewRect, zoom), LAMBDA next :
             VisitAll(Tail(ids), next, viewRect, zoom))

\* updateFractalLandmarks(ctx, viewRect, worldZoom): the context after the
\* traversal of the roots and the loop that hides the Graphics of the
\* nodes not visited, and the calls of generateChildren it made
UpdateFractalLandmarks_Prunes(ctx, viewRect, zoom) ==
    Bind(VisitAll(ctx.roots, [ctx |-> ctx, visibleIds |-> {}, generated |-> <<>>],
                  viewRect, zoom),
         LAMBDA acc :
             [ctx |-> [acc.ctx EXCEPT
                         !.gfx = [id \in DOMAIN acc.ctx.gfx \cap acc.visibleIds |->
                                    acc.ctx.gfx[id]]],
              generated |-> acc.generated])
UpdateFractalLandmarks(ctx, viewRect, zoom) ==
    Bind(VisitAll(ctx.roots, [ctx |-> ctx, visibleIds |-> {}, generated |-> <<>>],
                  viewRect, zoom),
         LAMBDA acc :
             [ctx |-> [acc.ctx EXCEPT
                         !.gfx = [id \in DOMAIN acc.ctx.gfx |->
                                    [acc.ctx.gfx[id] EXCEPT
                                       !.visible = id \in acc.visibleIds]]],
              generated |-> acc.generated])

\* createFractalLandmarks(seed): the outcome of the root generation loop,
\* and the context returned
RootPlacement(seed) == PlaceRoots(FullConfig, MakeRng(Word(seed)))
CreateFractalLandmarks(seed) ==
    Bind(RootPlacement(seed).roots, LAMBDA roots :
        [seed |-> seed,
         roots |-> [k \in DOMAIN roots |-> roots[k].id],
         nodes |-> [id \in {roots[k].id : k \in DOMAIN roots} |->
                       roots[CHOOSE k \in DOMAIN roots : roots[k].id = id]],
         gfx |-> <<>>,
         config |-> FullConfig])

\* createFractalLandmarks(12345) in the constructor of a view
Seed == 12345

\* the two views of the page, each with its own context; with each context
\* the attempts and the warnings of its root generation loop and
\* the history of its updates: how many there were, the view rectangle and
\* zoom of the last one, the update before it (its view rectangle and
\* zoom, the nodes it showed and the nodes, the nodes with children and
\* the Graphics there were after it), for every node with children the view rectangle and zoom under
\* which they were generated, and the calls of generateChildren made for it
LandmarkViews == {1, 2}

LandmarksOf(seed) ==
    Bind(RootPlacement(seed), LAMBDA placement :
        [ctx |-> CreateFractalLandmarks(seed),
         placement |-> [attempts |-> placement.attempts, warned |-> placement.warned],
         updates |-> 0, last |-> <<>>,
         previous |-> [last |-> <<>>, visible |-> {}, nodes |-> {}, parents |-> {},
                       gfx |-> {}],
         generatedAt |-> <<>>, runs |-> <<>>])
NewLandmarks == LandmarksOf(Seed)

InitLandmarks == landmarks = [c \in LandmarkViews |-> NewLandmarks]

\* view rectangles: one around the root blob at the origin (`L0_0`,
\* radius 1583) and one around the next root blob (`L0_1`, radius 1045),
\* neither reaching another root
ViewRects ==
    {[x |-> -1600, y |-> -1600, width |-> 3200, height |-> 3200],
     [x |-> -4500, y |-> 300, width |-> 2200, height |-> 2200]}

\* zooms, in pixels per unit of length: at 1/60 a blob shows from radius
\* 120 and gets children from radius 1200, at 1/15 from 30 and from 300
Zooms == {<<1, 60>>, <<1, 15>>}

\* the contexts after a frame of view c, with their history
LandmarksAfter(c, viewRect, zoom) ==
          Bind(UpdateFractalLandmarks(landmarks[c].ctx, viewRect, zoom), LAMBDA r :
              LET before == landmarks[c]
                  ids    == {r.generated[k].id : k \in DOMAIN r.generated}
              IN  [landmarks EXCEPT
                     ![c] = [ctx |-> r.ctx,
                             placement |-> before.placement,
                             updates |-> before.updates + 1,
                             last |-> <<viewRect, zoom>>,
                             previous |->
                                 [last |-> before.last,
                                  visible |-> {id \in DOMAIN before.ctx.gfx :
                                                  before.ctx.gfx[id].visible},
                                  nodes |-> DOMAIN before.ctx.nodes,
                                  parents |-> {id \in DOMAIN before.ctx.nodes :
                                                  before.ctx.nodes[id].generatedChildren},
                                  gfx |-> DOMAIN before.ctx.gfx],
                             generatedAt |-> [id \in ids |-> <<viewRect, zoom>>]
                                                @@ before.generatedAt,
                             runs |->
                                 [id \in ids \cup DOMAIN before.runs |->
                                     (IF id \in DOMAIN before.runs THEN before.runs[id]
                                      ELSE <<>>)
                                     \o [k \in 1..Cardinality({j \in DOMAIN r.generated : r.generated[j].id = id}) |->
                                            r.generated[CHOOSE j \in DOMAIN r.generated :
                                                           r.generated[j].id = id]]]]])

\* a frame of view c: updateFractalLandmarks(this.fractalCtx, viewRect, zoom)
UpdateLandmarks(c, viewRect, zoom) ==
    /\ landmarks' = LandmarksAfter(c, viewRect, zoom)
    /\ UNCHANGED <<elementVars, zoomVars, viewVars, storeVars, drawVars>>

\* createFractalLandmarks(seed) with other seeds than the views': seed 1
\* is the default of the parameter; with seed 5179140 the fifth root finds
\* no place in 50 attempts
Seeds == {0, 1, 2, 6, 11, 4489, 5179140}

\* view c gets a new context, made with seed
Construct(c, seed) ==
    /\ landmarks' = [landmarks EXCEPT ![c] = LandmarksOf(seed)]
    /\ UNCHANGED <<elementVars, zoomVars, viewVars, storeVars, drawVars>>

\* the nodes view c shows
VisibleNodes(c) ==
    {id \in DOMAIN landmarks[c].ctx.gfx : landmarks[c].ctx.gfx[id].visible}

----------------------------------------------------------------------------
(***************************************************************************)
(* The draw tool (tools/drawTool.ts) and the render loop of a view         *)
(* (_startRenderLoop).  A Graphics object is its place in the sequence     *)
(* graphics; strokeCache maps a key to such a place.  The points a view    *)
(* collects are exact world coordinates.  The items of the store carry     *)
(* whole numbers (see QT_BOUNDS): here their unit is 2^30 world units, one *)
(* pixel at the zoom a view starts with, of which every point collected    *)
(* and every view rectangle at that zoom is a whole multiple.  The overlay *)
(* of text cards is not modelled.                                          *)
(***************************************************************************)
RECURSIVE BInt(_)
BInt(a) == IF a = <<>> THEN 0 ELSE Head(a) + LimbBase * BInt(Tail(a))

\* the quotient of n by d, which is at least lo and below hi
RECURSIVE BQuot(_, _, _, _)
BQuot(n, d, lo, hi) ==
    IF hi - lo = 1 THEN lo
    ELSE Bind((lo + hi) \div 2, LAMBDA mid :
             IF BCmp(BMul(d, BigOf(mid)), n) <= 0
             THEN BQuot(n, d, mid, hi)
             ELSE BQuot(n, d, lo, mid))

\* Math.floor(p), for p between -2^30 and 2^30
RFloor(p) ==
    IF p.s = 0 THEN 0
    ELSE IF Len(p.d) > 1
    THEN Bind(BQuot(p.n, p.d, 0, 2 ^ 30), LAMBDA q :
             IF p.s > 0 THEN q
             ELSE IF BCmp(BMul(p.d, BigOf(q)), p.n) = 0 THEN -q ELSE -q - 1)
    ELSE LET c == BInt(p.d)
             q == BInt(BDivLimb(p.n, c))
         IN  IF p.s > 0 THEN q
             ELSE IF BModLimb(p.n, c) = 0 THEN -q ELSE -q - 1

\* a world length in the unit of the store's items
WorldGrain == RPow2(-InitialZoomExp)
InGrains(p) == RFloor(RDiv(p, WorldGrain))

StoreStroke(data) ==
    [type |-> data.type,
     pts |-> [i \in DOMAIN data.pts |->
                 <<InGrains(data.pts[i][1]), InGrains(data.pts[i][2])>>],
     stroke |-> [width |-> InGrains(data.stroke.width), color |-> data.stroke.color]]

StoreRect(r) ==
    [x |-> InGrains(r.x), y |-> InGrains(r.y),
     width |-> InGrains(r.width), height |-> InGrains(r.height)]

\* a view rectangle and a zoom in the unit of length of the landmarks
LandRect(r) ==
    [x |-> RFloor(RDiv(r.x, RInt(10 ^ 7))), y |-> RFloor(RDiv(r.y, RInt(10 ^ 7))),
     width |-> RFloor(RDiv(r.width, RInt(10 ^ 7))),
     height |-> RFloor(RDiv(r.height, RInt(10 ^ 7)))]

LandZoom(z) == Bind(RMul(z, RInt(10 ^ 7)), LAMBDA f : <<BInt(f.n), BInt(f.d)>>)

\* getViewRect() of view v (app.renderer.width and height are its size)
GetViewRect(wx, wy, ls, ze, v) ==
    LET z == GetZoom(ls, ze)
    IN  [x |-> RDiv(RNeg(wx), z), y |-> RDiv(RNeg(wy), z),
         width |-> RDiv(RInt(v.width), z), height |-> RDiv(RInt(v.height), z)]

\* new Graphics() added to this.world; lastZoom is undefined (no zoom is 0)
NoZoom == RZero
NewGraphics ==
    [visible |-> TRUE, inWorld |-> TRUE, lastZoom |-> NoZoom, path |-> <<>>, width |-> 0]

\* a Graphics taken out of this.world that nothing refers to any more
Dropped ==
    [visible |-> FALSE, inWorld |-> FALSE, lastZoom |-> NoZoom, path |-> <<>>, width |-> 0]

\* drawStroke(g, rect, z)
DrawStroke(g, rect, z) ==
    IF rect.id # TempId /\ g.lastZoom = z THEN g
    ELSE [g EXCEPT !.path = rect.data.pts, !.width = rect.data.stroke.width,
                   !.lastZoom = z]

\* Math.hypot(x - last[0], y - last[1]) < d, for d > 0
HypotBelow(x, y, last, d) ==
    LET dx == RSub(x, last[1])
        dy == RSub(y, last[2])
    IN  RLess(RAdd(RMul(dx, dx), RMul(dy, dy)), RMul(d, d))

\* the world point under a pointer event
WorldPointOf(e) ==
    LET localCoords == GetLocalCoordsFromEvent(e, view)
    IN  ScreenToWorld(localCoords.x, localCoords.y, worldX, worldY, localScale, zoomExp)

\* the data of the stroke in drawState
StrokeOf(ds, ls, ze) ==
    [type |-> "stroke-rect", pts |-> ds.pts,
     stroke |-> [width |-> GetScaledStroke(ds.width, ls, ze), color |-> ds.color]]

\* the stroke items of an index, and what a call of pointerUp did: the
\* event, the points pushed for its pointer since the last pointerDown
\* accepted for it, and the change of the store
StrokeItems(tr) == SelectSeq(TreeObjects(tr), IsStroke)
PointerUpDid(e, rev, tr, q) ==
    [type |-> e.type, pointerId |-> e.pointerId,
     collected |-> pointerLog.collected[e.pointerId],
     revisions |-> rev - revision,
     added |-> SelectSeq(StrokeItems(tr), LAMBDA it : ~ReturnedId(StrokeItems(tree), it.id)),
     puts |-> Len(q) - Len(dbq)]

\* DrawTool.pointerDown(e)
PointerDown(e) ==
    /\ IF \/ frozen
          \/ (e.button # 0 /\ e.pointerType = "mouse")
          \/ BlockDrawingEvent(e.targetBlocked, view.mainCanvas)
       THEN UNCHANGED <<drawState, strokeCache, graphics, pointerLog>>
       ELSE LET worldPoint == WorldPointOf(e)
                g == Len(graphics) + 1
            IN  /\ drawState' = [drawState EXCEPT
                                    !.active = TRUE,
                                    !.pointerID = e.pointerId,
                                    !.pts = <<<<worldPoint.x, worldPoint.y>>>>,
                                    !.g = g]
                /\ graphics' = Append(graphics, NewGraphics)
                /\ strokeCache' = (TempId :> g) @@ strokeCache
                /\ pointerLog' = [pointerLog EXCEPT !.collected[e.pointerId] = 1]
    /\ UNCHANGED <<elementVars, zoomVars, viewVars, storeVars, landVars, lastFrame, toolVars, overlay>>

\* DrawTool.pointerMove(e)
PointerMove(e) ==
    /\ IF \/ frozen
          \/ ~drawState.active
          \/ e.pointerId # drawState.pointerID
          \/ BlockDrawingEvent(e.targetBlocked, view.mainCanvas)
       THEN UNCHANGED <<drawState, graphics, pointerLog>>
       ELSE LET worldPoint == WorldPointOf(e)
                last == drawState.pts[Len(drawState.pts)]
                z    == GetZoom(localScale, zoomExp)
                pts  == Append(drawState.pts, <<worldPoint.x, worldPoint.y>>)
                tempRect ==
                    [id |-> TempId, x |-> 0, y |-> 0, width |-> 0, height |-> 0,
                     data |-> StrokeOf([drawState EXCEPT !.pts = pts], localScale, zoomExp)]
            IN  IF HypotBelow(worldPoint.x, worldPoint.y, last, RDiv(RInt(1), z))
                THEN UNCHANGED <<drawState, graphics, pointerLog>>
                ELSE /\ drawState' = [drawState EXCEPT !.pts = pts]
                     /\ graphics' =
                           IF drawState.g \in DOMAIN graphics
                           THEN [graphics EXCEPT ![drawState.g] = DrawStroke(@, tempRect, z)]
                           ELSE graphics
                     /\ pointerLog' = [pointerLog EXCEPT !.collected[e.pointerId] = @ + 1]
    /\ UNCHANGED <<elementVars, zoomVars, viewVars, storeVars, landVars, strokeCache, lastFrame, toolVars, overlay>>

\* mutant: a gesture of one point is committed as well
PointerUpDiscards_AnyLength(fr, ds) == fr \/ ~ds.active

\* if (frozen || !active || pts.length < 2) { active = false; return; }
PointerUpDiscards(fr, ds) == fr \/ ~ds.active \/ Len(ds.pts) < 2

\* DrawTool.pointerUp(e)
PointerUp(e) ==
    /\ IF e.pointerId = drawState.pointerID
       THEN /\ graphics' =
                  IF drawState.g # NoGraphics
                  THEN [graphics EXCEPT ![drawState.g] = Dropped]
                  ELSE graphics
            /\ strokeCache' =
                  IF drawState.g # NoGraphics
                  THEN [k \in DOMAIN strokeCache \ {TempId} |-> strokeCache[k]]
                  ELSE strokeCache
            /\ drawState' = [drawState EXCEPT !.g = NoGraphics, !.active = FALSE]
            /\ IF PointerUpDiscards(frozen, drawState)
               THEN UNCHANGED storeVars
               ELSE AddStroke(StoreStroke(StrokeOf(drawState, localScale, zoomExp)))
       ELSE UNCHANGED <<drawState, strokeCache, graphics, storeVars>>
    /\ pointerLog' = [collected |-> [pointerLog.collected EXCEPT ![e.pointerId] = 0],
                      lastUp |-> PointerUpDid(e, revision', tree', dbq')]
    /\ UNCHANGED <<elementVars, zoomVars, viewVars, landVars, lastFrame, toolVars, overlay>>

\* TextCardTool.pointerDown(e): a card of 508 x 304 pixels around the point
TextCardPointerDown(e) ==
    /\ IF e.button # 0
       THEN UNCHANGED storeVars
       ELSE LET worldPoint == WorldPointOf(e)
                z == GetZoom(localScale, zoomExp)
                w == RDiv(RInt(508), z)
                h == RDiv(RInt(304), z)
            IN  AddTextCard(
                    [x |-> InGrains(RSub(worldPoint.x, RDiv(w, RInt(2)))),
                     y |-> InGrains(RSub(worldPoint.y, RDiv(h, RInt(2)))),
                     width |-> InGrains(w), height |-> InGrains(h),
                     data |-> [type |-> "text-card",
                               zoom |-> [zoomExp |-> zoomExp, localScale |-> localScale],
                               title |-> "New card", htmlString |-> ""]])
    /\ UNCHANGED <<elementVars, zoomVars, viewVars, landVars, drawVars>>

\* the listeners of the pointer events: this.canvasTool.pointerDown(e) and
\* so on; pointerMove and pointerUp of a TextCardTool do nothing
PointerDownListener(e) ==
    /\ e.type = "pointerdown"
    /\ IF canvasTool = "DrawTool" THEN PointerDown(e) ELSE TextCardPointerDown(e)
PointerMoveListener(e) ==
    /\ e.type = "pointermove"
    /\ IF canvasTool = "DrawTool" THEN PointerMove(e) ELSE UNCHANGED vars
PointerUpListener(e) ==
    /\ e.type = "pointerup"
    /\ IF canvasTool = "DrawTool" THEN PointerUp(e) ELSE UNCHANGED vars
PointerCancelListener(e) ==
    /\ e.type = "pointercancel"
    /\ IF canvasTool = "DrawTool" THEN PointerUp(e) ELSE UNCHANGED vars

\* getCanvasTool(view, tool): the class of view.canvasTool after the call;
\* for a sub-canvas the function returns EmptyTool and assigns nothing
GetCanvasTool(mainCanvas, current, tool) ==
    IF mainCanvas
    THEN (IF tool = "draw" THEN "DrawTool"
          ELSE IF tool = "notecard" THEN "TextCardTool"
          ELSE "DrawTool")
    ELSE current

ActiveTools == {"draw", "notecard", "zoom"}

\* appStore.setState({ activeTool: tool }): the subscription of the view
\* runs when the value changes
SetActiveTool(tool) ==
    /\ tool # activeTool
    /\ activeTool' = tool
    /\ canvasTool' = GetCanvasTool(view.mainCanvas, canvasTool, tool)
    /\ UNCHANGED <<elementVars, zoomVars, viewVars, storeVars, landVars, drawState, strokeCache,
                   graphics, pointerLog, lastFrame, overlay>>

\* pointer events on the canvas of the view: of the mouse (pointer 1)
\* with its left or right button and of a touch contact (pointer 2), at
\* one of two places on the canvas or over a button on it
PointerDevices ==
    {[pointerId |-> 1, pointerType |-> "mouse", button |-> 0],
     [pointerId |-> 1, pointerType |-> "mouse", button |-> 2],
     [pointerId |-> 2, pointerType |-> "touch", button |-> 0]}

PointerPlaces ==
    {[x |-> o.x, y |-> o.y, targetBlocked |-> FALSE] : o \in PointerOffsets}
        \cup {[x |-> 30, y |-> 20, targetBlocked |-> TRUE]}

PointerEvents(type, devices) ==
    {[type |-> type, clientX |-> view.left + o.x, clientY |-> view.top + o.y,
      pointerId |-> d.pointerId, pointerType |-> d.pointerType, button |-> d.button,
      targetBlocked |-> o.targetBlocked] : o \in PointerPlaces, d \in devices}

\* the devices with the button that is down while a pointer moves or lifts
Pressed == {d \in PointerDevices : d.button = 0}

\* mutant: the loop that hides the cached Graphics is missing
HideCached_Nothing(cache, gs) == gs

\* this.strokeCache.forEach((g, id) => { if (id !== "temp") g.visible = false; })
HideCached(cache, gs) ==
    [r \in DOMAIN gs |->
        IF \E id \in DOMAIN cache \ {TempId} : cache[id] = r
        THEN [gs[r] EXCEPT !.visible = FALSE]
        ELSE gs[r]]

\* for (const item of visible) { ... }: the cache and the Graphics after it
RECURSIVE ShowVisible(_, _, _)
ShowVisible(items, st, z) ==
    IF items = <<>> THEN st
    ELSE Bind(Head(items), LAMBDA item :
         IF IsStroke(item)
         THEN Bind(IF item.id \in DOMAIN st.cache
                   THEN st
                   ELSE [cache |-> (item.id :> Len(st.graphics) + 1) @@ st.cache,
                         graphics |-> Append(st.graphics, NewGraphics)],
                   LAMBDA got :
              Bind([got EXCEPT !.graphics[got.cache[item.id]] =
                                  [DrawStroke(@, item, z) EXCEPT !.visible = TRUE]],
                   LAMBDA shown : ShowVisible(Tail(items), shown, z)))
         ELSE ShowVisible(Tail(items), st, z))

\* the identifiers of the strokes among items
StrokeIds(items) == {items[k].id : k \in {j \in DOMAIN items : IsStroke(items[j])}}

\* a tick of the render loop of the view (its landmark context is the first)
\* the width of an item of the store on the screen: rect.width * zView
ScreenWidth(rect, zView) == RMul(RMul(RInt(rect.width), WorldGrain), zView)

\* the least width in pixels at which a card gets its notecard
MinCardWidth == 50

\* syncPosition(rect): a card narrower than 50 px has its notecard hidden;
\* any other gets a notecard if the map has none (appended to the host),
\* is displayed and is marked with the frame
SyncPosition(ov, rect, zView) ==
    IF RLess(ScreenWidth(rect, zView), RInt(MinCardWidth))
    THEN IF rect.id \in DOMAIN ov.notecards
         THEN [ov EXCEPT !.notecards[rect.id].display = "none"]
         ELSE ov
    ELSE IF rect.id \in DOMAIN ov.notecards
         THEN [ov EXCEPT !.notecards[rect.id].display = "",
                         !.notecards[rect.id].frame = ov.frame]
         ELSE [ov EXCEPT !.notecards =
                  (rect.id :> [attached |-> TRUE, display |-> "", frame |-> ov.frame]) @@ @]

\* the calls of syncPosition in the loop over the visible items
RECURSIVE SyncVisible(_, _, _)
SyncVisible(items, ov, zView) ==
    IF items = <<>> THEN ov
    ELSE Bind(IF IsTextCard(Head(items)) THEN SyncPosition(ov, Head(items), zView) ELSE ov,
              LAMBDA synced : SyncVisible(Tail(items), synced, zView))

\* endFrame(): a notecard not marked with this frame is taken out of the
\* host; if it was not in the host removeChild throws and the catch block
\* deletes it from the map
EndFrame(ov) ==
    LET stale == {id \in DOMAIN ov.notecards : ov.notecards[id].frame # ov.frame}
        gone  == {id \in stale : ~ov.notecards[id].attached}
    IN  [ov EXCEPT !.notecards =
            [id \in DOMAIN ov.notecards \ gone |->
                IF id \in stale THEN [ov.notecards[id] EXCEPT !.attached = FALSE]
                ELSE ov.notecards[id]]]

\* the text cards among the items
TextCards(items) == SelectSeq(items, IsTextCard)

RenderTick ==
    LET viewRect == GetViewRect(worldX, worldY, localScale, zoomExp, view)
        z        == GetZoom(localScale, zoomExp)
        visible  == GetVisibleItems(tree, StoreRect(viewRect))
        shown    == ShowVisible(visible,
                                [cache |-> strokeCache,
                                 graphics |-> HideCached(strokeCache, graphics)], z)
    IN  /\ landmarks' = LandmarksAfter(1, LandRect(viewRect), LandZoom(z))
        /\ strokeCache' = shown.cache
        /\ graphics' = shown.graphics
        /\ lastFrame' = [ticks |-> lastFrame.ticks + 1,
                         seen |-> lastFrame.seen \cup StrokeIds(visible),
                         returned |-> StrokeIds(visible)]
        /\ overlay' = EndFrame(SyncVisible(visible,
                                           [overlay EXCEPT !.frame = @ + 1], z))
        /\ UNCHANGED <<elementVars, zoomVars, viewVars, storeVars, drawState, pointerLog, toolVars>>

----------------------------------------------------------------------------
(***************************************************************************)
(* SpecZoom: the zoom model alone, driven by arbitrary wheel deltas.       *)
(* SpecView: one view on the page, driven by wheel events.                 *)
(* SpecLandmarks: the landmark contexts of two views, updated each with    *)
(*           view rectangles and zooms of its own.                         *)
(* SpecSeeds: a landmark context made with one seed or another, and        *)
(*           updated.                                                      *)
(***************************************************************************)
InitZoom == InitZoomState /\ InitView /\ view.mainCanvas /\ IdleStore /\ InitLandmarks

NextZoom == \E delta \in WheelDeltas : ZoomStep(delta)

SpecZoom == InitZoom /\ [][NextZoom]_vars

InitViewSpec == InitZoomState /\ InitView /\ IdleStore /\ InitLandmarks

NextView ==
    \/ \E ev \in WheelEvents : Wheel(ev)
    \/ \E b \in BOOLEAN : SetFrozen(b)

SpecView == InitViewSpec /\ [][NextView]_vars

MaxLandmarkUpdates == 3

NextLandmarks ==
    \E c \in LandmarkViews, viewRect \in ViewRects, zoom \in Zooms :
        /\ landmarks[1].updates + landmarks[2].updates < MaxLandmarkUpdates
        /\ UpdateLandmarks(c, viewRect, zoom)

SpecLandmarks == InitZoom /\ [][NextLandmarks]_vars

MaxSeedUpdates == 2

NextSeeds ==
    \/ \E seed \in Seeds : Construct(1, seed)
    \/ \E viewRect \in ViewRects, zoom \in Zooms :
          /\ landmarks[1].updates < MaxSeedUpdates
          /\ UpdateLandmarks(1, viewRect, zoom)

SpecSeeds == InitZoom /\ [][NextSeeds]_vars

----------------------------------------------------------------------------------------------------------------------------------------------
(***************************************************************************)
(* SpecDraw:   the main view with its draw tool, driven by pointer events  *)
(*             and frozen now and then.                                    *)
(* SpecRender: the main view with its draw tool and its render loop, on a  *)
(*             model that also takes strokes of other views and loads      *)
(*             files.                                                      *)
(***************************************************************************)
MaxGraphics == 2
MaxPts == 2

\* a pointer lifts where it is: at the first place of the canvas
Lifts(type) ==
    {e \in PointerEvents(type, Pressed) : ~e.targetBlocked /\ e.clientX = view.left + 10}

DrawEvents ==
    \/ \E e \in PointerEvents("pointerdown", PointerDevices) :
          Len(graphics) < MaxGraphics /\ PointerDownListener(e)
    \/ \E e \in PointerEvents("pointermove", Pressed) :
          Len(drawState.pts) < MaxPts /\ PointerMoveListener(e)
    \/ \E e \in Lifts("pointerup") : PointerUpListener(e)
    \/ \E e \in Lifts("pointercancel") : PointerCancelListener(e)

NextDraw ==
    \/ DrawEvents
    \/ \E b \in BOOLEAN : SetFrozen(b)

SpecDraw == InitZoom /\ [][NextDraw]_vars

\* the views of the page, main canvas or sub-canvas, with the tool buttons
\* of the palette
MaxToolItems == 1

ToolDevices == {d \in PointerDevices : d.pointerType = "mouse"}

ToolEvents(type) ==
    {e \in PointerEvents(type, ToolDevices) : ~e.targetBlocked}

NextTools ==
    \/ \E e \in ToolEvents("pointerdown") :
          revision < MaxToolItems /\ Len(graphics) < MaxToolItems
              /\ PointerDownListener(e)
    \/ \E e \in ToolEvents("pointermove") :
          Len(drawState.pts) < MaxPts /\ PointerMoveListener(e)
    \/ \E e \in ToolEvents("pointerup") : PointerUpListener(e)
    \/ \E e \in ToolEvents("pointercancel") : PointerCancelListener(e)
    \/ \E tool \in ActiveTools : SetActiveTool(tool)

SpecTools == InitViewSpec /\ [][NextTools]_vars

MaxTicks == 2
MaxRenderCalls == 2

\* an export with one stroke
RenderFiles == {file \in Files : ValidFile(file) /\ DOMAIN file = Tables
                                    /\ Len(file.strokes) = 1 /\ file.textCards = <<>>}

\* the touch contact at the first place of the canvas; it goes down once
\* and stays
RenderEvents(type) == {e \in Lifts(type) : e.pointerId = 2}

NextRender ==
    \/ lastFrame.ticks < MaxTicks /\ RenderTick
    \/ calls < MaxRenderCalls /\ \E data \in StrokeInputs : CommitStroke(data)
    \/ calls < MaxRenderCalls /\ \E file \in RenderFiles : LoadFromFile(file)
    \/ \E i \in DOMAIN dbq : LoadImported(i)
    \/ \E i \in DOMAIN dbq : LoadRebuilt(i)
    \/ \E i \in DOMAIN dbq : SaveCompletes(i)
    \/ \E e \in RenderEvents("pointerdown") :
          drawState.g = NoGraphics /\ PointerDownListener(e)

SpecRender == InitZoom /\ [][NextRender]_vars


----------------------------------------------------------------------------
(***************************************************************************)
(* SpecCrud:  a model created on an empty database; items are added,       *)
(*            updated and deleted.                                         *)
(* SpecInit:  a model created on what an earlier session left; init() and  *)
(*            additions.                                                   *)
(* SpecStore: every method of the model.                                   *)
(* SpecIndex: additions and queries of the index, enough of them for the   *)
(*            quadtree to split.                                           *)
(* SpecFaulty: SpecCrud with IndexedDB requests that may be rejected.      *)
(* SpecInitFaulty: SpecInit with reads of init() that may be rejected.     *)
(***************************************************************************)
MaxCrudCalls == 3
MaxInitCalls == 4
MaxStoreCalls == 3
MaxIndexItems == 11

IdleView == InitZoomState /\ InitView /\ view.mainCanvas /\ InitLandmarks

DbSteps ==
    \/ \E i \in DOMAIN dbq : SaveCompletes(i)
    \/ \E i \in DOMAIN dbq : UpdateTextCardLookup(i)
    \/ \E i \in DOMAIN dbq : UpdateTextCardSaved(i)
    \/ \E i \in DOMAIN dbq : DeleteTextCardLookup(i)
    \/ \E i \in DOMAIN dbq : DeleteTextCardDone(i)

CrudCalls(max) ==
    \/ calls < max /\ \E data \in StrokeInputs : CommitStroke(data)
    \/ calls < max /\ \E card \in CardInputs : PlaceTextCard(card)
    \/ calls < max /\ \E id \in KnownCardIds \cup {GhostId}, patch \in Patches,
                           newBBox \in BBoxPatches : UpdateTextCard(id, patch, newBBox)
    \/ calls < max /\ \E id \in KnownCardIds \cup {GhostId} : DeleteTextCard(id)

InitCrud == IdleView /\ InitStore /\ db = EmptyDB

NextCrud ==
    \/ CrudCalls(MaxCrudCalls)
    \/ DbSteps

SpecCrud == InitCrud /\ [][NextCrud]_vars

MaxFaultyCalls == 3

DbFailures ==
    \/ \E i \in DOMAIN dbq : SaveFails(i)
    \/ \E i \in DOMAIN dbq : UpdateTextCardSaveFails(i)
    \/ \E i \in DOMAIN dbq : DeleteTextCardFails(i)

NextFaulty ==
    \/ CrudCalls(MaxFaultyCalls)
    \/ DbSteps
    \/ DbFailures

SpecFaulty == InitCrud /\ [][NextFaulty]_vars

InitInit == IdleView /\ InitStore

NextInit ==
    \/ calls < MaxInitCalls /\ ModelInit
    \/ calls < MaxInitCalls /\ \E data \in StrokeInputs : CommitStroke(data)
    \/ calls < MaxInitCalls /\ \E card \in CardInputs : PlaceTextCard(card)
    \/ \E i \in DOMAIN dbq : SaveCompletes(i)
    \/ \E i \in DOMAIN dbq : InitRead(i)
    \/ \E i \in DOMAIN dbq : InitLoaded(i)

SpecInit == InitInit /\ [][NextInit]_vars

\* the same, with toArray requests of init() that IndexedDB may reject
MaxInitFaultyCalls == 3

NextInitFaulty ==
    \/ calls < MaxInitFaultyCalls /\ ModelInit
    \/ calls < MaxInitFaultyCalls /\ \E data \in StrokeInputs : CommitStroke(data)
    \/ calls < MaxInitFaultyCalls /\ \E card \in CardInputs : PlaceTextCard(card)
    \/ \E i \in DOMAIN dbq : SaveCompletes(i)
    \/ \E i \in DOMAIN dbq : InitRead(i)
    \/ \E i \in DOMAIN dbq : InitLoaded(i)
    \/ \E i \in DOMAIN dbq : InitFails(i)
    \/ \E i \in DOMAIN dbq : InitReadDropped(i)

SpecInitFaulty == InitInit /\ [][NextInitFaulty]_vars

InitStoreSpec == IdleView /\ InitStore

NextStore ==
    \/ CrudCalls(MaxStoreCalls)
    \/ calls < MaxStoreCalls /\ ModelInit
    \/ calls < MaxStoreCalls /\ \E file \in Files : LoadFromFile(file)
    \/ calls < MaxStoreCalls /\ \E file \in Files : LoadFromFileRejected(file)
    \/ DbSteps
    \/ \E i \in DOMAIN dbq : InitRead(i)
    \/ \E i \in DOMAIN dbq : InitLoaded(i)
    \/ \E i \in DOMAIN dbq : LoadImported(i)
    \/ \E i \in DOMAIN dbq : LoadImportFails(i)
    \/ \E i \in DOMAIN dbq : LoadRebuilt(i)

SpecStore == InitStoreSpec /\ [][NextStore]_vars

\* the notecards of the main view: a card is placed, the wheel zooms and
\* the ticker renders.  The card is one a TextCardTool made when the zoom
\* was 1.1^24 times the initial one (508 / z and 304 / z in the unit of the
\* store), so that one zoom-out step takes it under 50 px and the zoom-in
\* step after it brings it back; its data.zoom has no part in what is
\* modelled of syncPosition.
MaxFrames == 3

OverlayCards ==
    {[x |-> -25, y |-> -15, width |-> 51, height |-> 30,
      data |-> [type |-> "text-card", zoom |-> [zoomExp |-> -27, localScale |-> 1],
                title |-> "New card", htmlString |-> ""]]}

OverlayWheels == {ev \in WheelEvents : ~ev.targetBlocked /\ ev.deltaY # 0 /\ ev.clientX = 10}

NextOverlay ==
    \/ overlay.frame < MaxFrames /\ RenderTick
    \/ calls < 1 /\ \E card \in OverlayCards : PlaceTextCard(card)
    \/ \E ev \in OverlayWheels : Wheel(ev)

SpecOverlay == InitZoom /\ [][NextOverlay]_vars

\* the import button of the page: "change" events of the file input, the
\* IndexedDB requests of the loads they start, and the pointer of the user
\* on the main canvas.  A request IndexedDB holds is answered in the end
\* (weak fairness of the three steps that answer); the user owes nothing.
MaxImports == 2

ImportAnswers ==
    \/ \E i \in DOMAIN dbq : LoadImported(i)
    \/ \E i \in DOMAIN dbq : LoadImportFails(i)
    \/ \E i \in DOMAIN dbq : ImportChangeResumes(i)

NextImport ==
    \/ \E files \in ImportFiles : calls < MaxImports /\ ImportChange(files)
    \/ \E e \in ToolEvents("pointerdown") : graphics = <<>> /\ PointerDownListener(e)
    \/ ImportAnswers

SpecImport == InitStoreSpec /\ [][NextImport]_vars /\ WF_vars(ImportAnswers)

InitIndex == IdleView /\ InitStore /\ db = EmptyDB

NextIndex ==
    \/ calls < MaxIndexItems /\ \E data \in StrokeInputs : CommitStroke(data)
    \/ \E bounds \in QueryBounds : Query(bounds)

SpecIndex == InitIndex /\ [][NextIndex]_vars

----------------------------------------------------------------------------
(***************************************************************************)
(* Claims on the zoom model (SpecZoom).                                    *)
(***************************************************************************)
MantissaInRange == RLeq(RFrac(1, 2), localScale) /\ RLess(localScale, RInt(2))

\* C4: after every _updateZoom step from the initial zoom state the mantissa
\* (localScale) lies in [0.5, 2) and the exponent (zoomExp) is an integer.
C4_MantissaNormalized == MantissaInRange /\ zoomExp \in Int

\* C4 witness: steps were taken and the loops folded magnitude into the exponent
C4_Witness == lastDelta # NoDelta /\ zoomExp > InitialZoomExp /\ zoomOuts > 0

\* C5: each wheel step multiplies the effective scale localScale * 2^zoomExp
\* by exactly 1.1 when delta < 0 and by exactly 0.9 otherwise (delta = 0
\* included), whatever the normalization loops did.
C5_StepScalesByFactor ==
    [][REq(GetZoom(localScale', zoomExp'),
           RMul(GetZoom(localScale, zoomExp),
                IF lastDelta'[1] < 0 THEN RFrac(11, 10) ELSE RFrac(9, 10)))]_vars

\* C5 witness: a step with delta = 0 was taken after the exponent was changed
C5_Witness == lastDelta = <<0>> /\ zoomExp # InitialZoomExp

RECURSIVE RPow(_, _)
RPow(r, n) == IF n = 0 THEN RInt(1) ELSE RMul(r, RPow(r, n - 1))

RoundTrip == insFirst /\ zoomIns >= 1 /\ zoomIns = zoomOuts

\* C6 as stated: n zoom-ins followed by n zoom-outs return the effective
\* scale to its original value, the mantissa staying in [0.5, 2).
C6_RoundTripRestoresScale ==
    /\ MantissaInRange
    /\ RoundTrip => REq(GetZoom(localScale, zoomExp),
                        GetZoom(InitialLocalScale, InitialZoomExp))

\* C6 amended: n zoom-ins followed by n zoom-outs leave the effective scale
\* at 0.99^n times its original value, the mantissa staying in [0.5, 2).
C6_RoundTripScalesBy099 ==
    /\ MantissaInRange
    /\ RoundTrip => REq(GetZoom(localScale, zoomExp),
                        RMul(RPow(RFrac(99, 100), zoomIns),
                             GetZoom(InitialLocalScale, InitialZoomExp)))

\* C6 witness: a round trip long enough for both loops to have run
C6_Witness == RoundTrip /\ zoomIns >= 8

----------------------------------------------------------------------------
(***************************************************************************)
(* Claims on the view (SpecView).                                          *)
(***************************************************************************)
\* C3: after a wheel event that is neither frozen nor blocked, the world
\* point under the cursor's canvas-local position is the one that was under
\* it before the event (zoom to cursor).
C3_ZoomToCursorFixedPoint ==
    lastWheel.handled =>
        LET after == ScreenToWorld(lastWheel.sx, lastWheel.sy,
                                   worldX, worldY, localScale, zoomExp)
        IN  REq(after.x, lastWheel.before.x) /\ REq(after.y, lastWheel.before.y)

----------------------------------------------------------------------------
(***************************************************************************)
(* Claims on the model's index and tables.                                 *)
(***************************************************************************)
\* an entry of the index or of a table: an identifier with its bounding box
Entry(o) == [id |-> o.id, x |-> o.x, y |-> o.y, width |-> o.width, height |-> o.height]

IndexObjects == {TreeObjects(tree)[k] : k \in DOMAIN TreeObjects(tree)}
IndexEntries == {Entry(o) : o \in IndexObjects}
StoreRows == {db.strokes[k] : k \in DOMAIN db.strokes}
                 \cup {db.textCards[k] : k \in DOMAIN db.textCards}
StoreEntries == {Entry(r) : r \in StoreRows}

\* C1 (SpecCrud): after any sequence of addStroke, addTextCard,
\* updateTextCard and deleteTextCard calls, not-found ones included, once
\* every issued persistence request has completed, the identifiers in the
\* index with their bounding boxes are those in the tables with theirs.
C1_IndexMatchesStore == dbq = <<>> => IndexEntries = StoreEntries

\* C1 witness: all writes have landed after a card was moved by an update,
\* with a stroke beside it
C1_Witness ==
    /\ dbq = <<>>
    /\ lastOp.op = "updateSaved"
    /\ \E o \in IndexObjects : IsTextCard(o) /\ o.x = 40
    /\ \E o \in IndexObjects : IsStroke(o)

\* C2 (SpecStore): when a loadFromFile that ran alone (nothing pending when
\* it was called, no other call until it finished) finishes, the index holds
\* exactly the items of the file, strokes and text cards, it matches the
\* tables, and revision has been incremented.
C2_LoadRebuildsIndex ==
    [][(lastOp'.op = "loadDone" /\ lastOp'.alone) =>
          /\ IndexEntries' = {Entry(it) : it \in FileItems(lastOp'.file)}
          /\ IndexEntries' = StoreEntries'
          /\ revision' = revision + 1]_vars

\* do the boxes a and b overlap
Overlaps(a, b) ==
    /\ a.x < b.x + b.width /\ b.x < a.x + a.width
    /\ a.y < b.y + b.height /\ b.y < a.y + a.height

\* C7 (SpecIndex): getVisibleItems(rect) returns exactly the inserted items
\* whose bounding box overlaps rect.
C7_QueryReturnsOverlapping ==
    lastOp.op = "getVisibleItems" =>
        {lastOp.result[k].ref : k \in DOMAIN lastOp.result}
            = {o.ref : o \in {p \in IndexObjects : Overlaps(p, lastOp.bounds)}}

\* no two objects of the index have the same identifier
UniqueIds == \A o1, o2 \in IndexObjects : o1.id = o2.id => o1.ref = o2.ref

\* C8 as stated (SpecInit): for any interleaving of init(), addStroke() and
\* addTextCard(), init() run more than once included, the index holds at
\* most one entry per identifier.
C8_AtMostOneEntryPerId == UniqueIds

\* C8 amended (SpecInit): when init() is called at most once and no item is
\* added before that call, the index holds at most one entry per
\* identifier, also for items added while init() is loading.
C8_AtMostOneEntryPerIdInitOnce == (initCalls <= 1 /\ ~addBeforeInit) => UniqueIds

\* C8 witness: the one init() has finished loading the persisted items and
\* an item was added while it was loading
C8_Witness ==
    /\ initCalls = 1 /\ ~addBeforeInit
    /\ lastOp.op = "initDone"
    /\ nextId > 1
    /\ Cardinality(IndexObjects) >= 3

\* the steps that end a successful mutating operation
BumpOps == {"addStroke", "addTextCard", "updateSaved", "deleteDone", "loadDone"}

\* C9 (SpecStore): revision changes only by one, only as the last step of a
\* mutating operation (or of init), each of addStroke, addTextCard,
\* updateTextCard and deleteTextCard on an existing card and loadFromFile
\* increments it when it ends, and by then getVisibleItems returns the
\* operation's change.
C9_BumpAfterQueryable ==
    [][/\ revision' # revision =>
            /\ revision' = revision + 1
            /\ lastOp'.op \in BumpOps \cup {"initDone"}
            /\ lastOp'.queryable
       /\ lastOp'.op \in BumpOps => revision' = revision + 1]_vars

\* C10 (SpecCrud): an updateTextCard or deleteTextCard that does not find
\* its identifier returns without throwing and leaves the index, the tables
\* and revision as they were.
C10_NotFoundChangesNothing ==
    [][lastOp'.op \in {"updateMiss", "deleteMiss"} =>
          /\ tree' = tree
          /\ db' = db
          /\ revision' = revision
          /\ ~lastOp'.threw]_vars

\* C10 witness: an update did not find a card that a delete had removed
\* from the index and the table
C10_Witness ==
    /\ lastOp.op = "updateMiss"
    /\ lastOp.id # GhostId
    /\ lastOp.id \notin RowIds(db.textCards)
    /\ revision >= 2

\* the identifiers of the objects of the index
IndexIds == {o.id : o \in IndexObjects}

\* C11 (SpecCrud): when a deleteTextCard(id) on an existing card resolves,
\* no getVisibleItems query returns an item with that id, the textCards
\* table has no row with that id, the step increments revision, and if the
\* call ran alone revision is one higher than when it was made.
C11_DeleteRemovesEverywhere ==
    [][lastOp'.op = "deleteDone" =>
          /\ lastOp'.id \notin IndexIds'
          /\ \A bounds \in QueryBounds :
                 ~ReturnedId(GetVisibleItems(tree', bounds), lastOp'.id)
          /\ lastOp'.id \notin RowIds(db'.textCards)
          /\ revision' = revision + 1
          /\ lastOp'.alone => revision' = lastOp'.revAtCall + 1]_vars

\* C11 witness: a delete that ran alone has resolved while other items
\* remain in the index
C11_Witness == lastOp.op = "deleteDone" /\ lastOp.alone /\ IndexObjects # {}

\* the bounding box of an item
BoxOf(o) == [x |-> o.x, y |-> o.y, width |-> o.width, height |-> o.height]

\* what C12 says of the card with this id after an update of the card old
\* with patch and newBBox, but for the queries that reach only the old box
UpdateApplied(tr, database, id, old, patch, newBBox) ==
    LET cards  == {o \in {TreeObjects(tr)[k] : k \in DOMAIN TreeObjects(tr)} : o.id = id}
        newBox == Assign(BoxOf(old), newBBox)
    IN  /\ Cardinality(cards) = 1
        /\ \A c \in cards :
              /\ c.data = Assign(old.data, patch)
              /\ BoxOf(c) = newBox
              /\ GetRow(database.textCards, id) = <<Props(c)>>
        /\ \A q \in QueryBounds :
              Overlaps(q, newBox) => ReturnedId(GetVisibleItems(tr, q), id)

\* C12 (SpecCrud): when an updateTextCard(id, patch, newBox) on an existing
\* card that ran alone resolves, the card's payload is the old payload
\* overridden by patch, its box the old box overridden by newBox, the index
\* holds exactly one entry for id, queries overlapping the new box return
\* it, queries overlapping only the old box do not, and the row of the
\* table equals the card.
C12_UpdateReindexes ==
    [][(lastOp'.op = "updateSaved" /\ lastOp'.alone) =>
          /\ UpdateApplied(tree', db', lastOp'.id, lastOp'.old, lastOp'.patch,
                           lastOp'.newBBox)
          /\ \A q \in QueryBounds :
                (/\ Overlaps(q, BoxOf(lastOp'.old))
                 /\ ~Overlaps(q, Assign(BoxOf(lastOp'.old), lastOp'.newBBox)))
                    => ~ReturnedId(GetVisibleItems(tree', q), lastOp'.id)]_vars

\* the entries of the index and of the tables for one identifier
IndexEntriesOf(id) == {en \in IndexEntries : en.id = id}
StoreEntriesOf(id) == {en \in StoreEntries : en.id = id}

\* C13 (SpecFaulty): when the persistence call of an updateTextCard or
\* deleteTextCard that ran alone is rejected, the index and the tables hold
\* the card's identifier alike, with the same box, as if the operation had
\* not happened.
C13_FailedWriteHasNoEffect ==
    (lastOp.op \in {"updateFailed", "deleteFailed"} /\ lastOp.alone) =>
        IndexEntriesOf(lastOp.id) = StoreEntriesOf(lastOp.id)

\* C14 (SpecFaulty): updateTextCard and deleteTextCard treat as not found
\* only a card that is not in the index, whether or not the write of
\* addTextCard has completed or was lost.
C14_IndexedCardIsFound ==
    lastOp.op \in {"updateMiss", "deleteMiss"} =>
        ~\E o \in IndexObjects : IsTextCard(o) /\ o.id = lastOp.id

\* C15 (SpecStore): every persistence write (the put of an add or update,
\* the delete, the import of loadFromFile) is issued when the index already
\* reflects it, so that the tables never get a change the index lacks.
C15_IndexUpdatedBeforeWrite ==
    \A k \in DOMAIN dbq : IsWrite(dbq[k]) => dbq[k].indexed

\* C16 (SpecStore): a loadFromFile of a malformed import (a text that is
\* not JSON, a missing strokes or textCards array, records the bulk insert
\* rejects, a key that is no table) ends by throwing to its caller and
\* changes nothing: the tables, the index and the revision are as before.
C16_MalformedImportChangesNothing ==
    [][lastOp'.op = "loadFailed"
         => /\ lastOp'.threw
            /\ db' = db
            /\ tree' = tree
            /\ revision' = revision]_vars

\* a file with a duplicate record is rejected by the bulk insert, over
\* tables and an index that are not empty
C16_Witness ==
    /\ lastOp.op = "loadFailed" /\ lastOp.stage = "transaction"
    /\ ValidFile(lastOp.file) /\ DOMAIN lastOp.file = Tables
    /\ db.strokes # <<>>
    /\ TreeObjects(tree) # <<>>

\* C17 (SpecInitFaulty): the step in which an init() resolves after its
\* load leaves every persisted stroke and text card in the index and
\* returned by a query on its box, sets initialized and adds exactly one to
\* revision; the step in which an init() resolves after a failed load sets
\* initialized, adds exactly one to revision and leaves the index as it
\* is; no other step of init() touches revision, initialized or the index.
C17_InitResolves ==
    [][/\ lastOp'.op = "initDone"
          => /\ initialized'
             /\ revision' = revision + 1
             /\ StoreEntries' \subseteq IndexEntries'
             /\ \A t \in Tables : \A k \in DOMAIN db'[t] :
                   ReturnedId(GetVisibleItems(tree', db'[t][k]), db'[t][k].id)
       /\ lastOp'.op = "initFailed"
          => /\ initialized'
             /\ revision' = revision + 1
             /\ tree' = tree
       /\ lastOp'.op \in {"init", "initRead", "initReadDropped"}
          => /\ revision' = revision
             /\ initialized' = initialized
             /\ tree' = tree]_vars

\* an init() has resolved after a failed load, over tables that hold a
\* stroke and a card, and another has resolved after a successful load
C17_Witness ==
    /\ lastOp.op = "initFailed"
    /\ db.strokes # <<>> /\ db.textCards # <<>>
    /\ initialized
    /\ revision = 2
    /\ \E k \in DOMAIN TreeObjects(tree) : TreeObjects(tree)[k].id = StrokeA

\* the box the specification gives a stroke: (minx - w/2, miny - w/2,
\* maxx - minx + w, maxy - miny + w) over its points
Least(S) == CHOOSE m \in S : \A n \in S : m <= n
Greatest(S) == CHOOSE m \in S : \A n \in S : m >= n
SpecifiedBox(data) ==
    LET X == {data.pts[k][1] : k \in DOMAIN data.pts}
        Y == {data.pts[k][2] : k \in DOMAIN data.pts}
        w == data.stroke.width
    IN  [x |-> (2 * Least(X) - w) \div 2, y |-> (2 * Least(Y) - w) \div 2,
         width |-> Greatest(X) - Least(X) + w, height |-> Greatest(Y) - Least(Y) + w]

\* the box addStroke computes is the specified one
C18_Box ==
    \A o \in IndexObjects : IsStroke(o) => BoxOf(o) = SpecifiedBox(o.data)

\* C18 (SpecIndex): every stroke added has the box (minx - w/2, miny - w/2,
\* maxx - minx + w, maxy - miny + w), and a later getVisibleItems(rect)
\* returns it if rect overlaps that box and does not return it if rect is
\* disjoint from it.
C18_StrokeBoxAndQuery ==
    /\ C18_Box
    /\ lastOp.op = "getVisibleItems" =>
          \A o \in IndexObjects :
              IsStroke(o) => (Returned(lastOp.result, o.ref) <=> Overlaps(o, lastOp.bounds))

\* the nodes two contexts both have, the nodes whose children both have
\* generated, and the nodes both have drawn
CommonNodes == DOMAIN landmarks[1].ctx.nodes \cap DOMAIN landmarks[2].ctx.nodes
CommonParents ==
    {id \in CommonNodes : /\ landmarks[1].ctx.nodes[id].generatedChildren
                          /\ landmarks[2].ctx.nodes[id].generatedChildren}
CommonGraphics == DOMAIN landmarks[1].ctx.gfx \cap DOMAIN landmarks[2].ctx.gfx

\* C19 (SpecLandmarks): with the same seed, a node generated in two
\* contexts, whatever the view rectangles and zooms under which it was
\* generated, has the same children (identifiers, centers, radii, colors)
\* and the same boundary polygon in both.
C19_GenerationDeterministic ==
    /\ \A id \in CommonParents :
          /\ landmarks[1].ctx.nodes[id].children = landmarks[2].ctx.nodes[id].children
          /\ \A k \in DOMAIN landmarks[1].ctx.nodes[id].children :
                LET kid == landmarks[1].ctx.nodes[id].children[k]
                    n1  == landmarks[1].ctx.nodes[kid]
                    n2  == landmarks[2].ctx.nodes[kid]
                IN  /\ n1.cx = n2.cx /\ n1.cy = n2.cy
                    /\ n1.radius = n2.radius
                    /\ n1.color = n2.color
    /\ \A id \in CommonGraphics :
          landmarks[1].ctx.gfx[id].pts = landmarks[2].ctx.gfx[id].pts

\* both contexts have generated the children of the same root, under
\* different zooms and after different histories, and both have drawn one
\* of its children
C19_Witness ==
    \E id \in CommonParents :
        /\ landmarks[1].generatedAt[id] # landmarks[2].generatedAt[id]
        /\ landmarks[1].updates # landmarks[2].updates
        /\ \E k \in CommonGraphics : Len(k) = 2 /\ k[1] = id[1]

\* C20 (SpecLandmarks): with the same seed, two contexts whose last
\* update had the same view rectangle and zoom show the same nodes,
\* whatever their earlier updates were.
C20_VisibleSetIgnoresHistory ==
    (landmarks[1].last # <<>> /\ landmarks[1].last = landmarks[2].last)
        => VisibleNodes(1) = VisibleNodes(2)

\* a node's place in a frame with view rectangle rect and zoom: its box
\* lies outside the rectangle, its on-screen radius is below the threshold
Outside(box, rect) ==
    \/ box.x + box.width < rect.x
    \/ box.x > rect.x + rect.width
    \/ box.y + box.height < rect.y
    \/ box.y > rect.y + rect.height
BelowThreshold(node, config, zoom) == node.radius * zoom[1] < config.minPixelRadius * zoom[2]
Culled(c, id) ==
    LET node == landmarks[c].ctx.nodes[id]
    IN  \/ Outside(node.bbox, landmarks[c].last[1])
        \/ BelowThreshold(node, landmarks[c].ctx.config, landmarks[c].last[2])

\* C21 (SpecLandmarks): after an updateFractalLandmarks call, a node whose
\* on-screen radius is below the minimum pixel threshold or whose box lies
\* outside the view rectangle is not visible, and the call has made no
\* Graphics and no children for it.
C21_CutoffMaterializesNothing ==
    \A c \in LandmarkViews :
        landmarks[c].updates > 0 =>
            \A id \in DOMAIN landmarks[c].ctx.nodes :
                Culled(c, id) =>
                    /\ id \notin VisibleNodes(c)
                    /\ id \in DOMAIN landmarks[c].ctx.gfx => id \in landmarks[c].previous.gfx
                    /\ landmarks[c].ctx.nodes[id].generatedChildren
                          => id \in landmarks[c].previous.parents

\* an update has hidden a drawn node that is inside the view rectangle and
\* too small on screen, has left a node outside the view rectangle without
\* Graphics, and has shown another node
C21_Witness ==
    \E c \in LandmarkViews :
        /\ landmarks[c].updates > 0
        /\ VisibleNodes(c) # {}
        /\ \E id \in DOMAIN landmarks[c].ctx.gfx :
              /\ BelowThreshold(landmarks[c].ctx.nodes[id], landmarks[c].ctx.config,
                                landmarks[c].last[2])
              /\ ~Outside(landmarks[c].ctx.nodes[id].bbox, landmarks[c].last[1])
              /\ id \notin VisibleNodes(c)
        /\ \E id \in DOMAIN landmarks[c].ctx.nodes :
              /\ Outside(landmarks[c].ctx.nodes[id].bbox, landmarks[c].last[1])
              /\ id \notin DOMAIN landmarks[c].ctx.gfx

\* zoom z1 is at most zoom z2
ZoomLeq(z1, z2) == z1[1] * z2[2] <= z2[1] * z1[2]

\* the nodes inside the view rectangles of the last two updates of view c
StaysInside(c) ==
    {id \in DOMAIN landmarks[c].ctx.nodes :
        /\ ~Outside(landmarks[c].ctx.nodes[id].bbox, landmarks[c].previous.last[1])
        /\ ~Outside(landmarks[c].ctx.nodes[id].bbox, landmarks[c].last[1])}

\* C22 (SpecLandmarks): from one frame to the next with a zoom that does
\* not decrease, a node that stays inside the view rectangle and was
\* visible stays visible; one Graphics is made for an identifier, and its
\* polygon is drawn once.
C22_AppearsOnce ==
    \A c \in LandmarkViews :
        /\ \A id \in DOMAIN landmarks[c].ctx.gfx :
              /\ landmarks[c].ctx.gfx[id].objects = 1
              /\ landmarks[c].ctx.gfx[id].draws = 1
        /\ (landmarks[c].updates >= 2
              /\ ZoomLeq(landmarks[c].previous.last[2], landmarks[c].last[2]))
           => \A id \in landmarks[c].previous.visible \cap StaysInside(c) :
                  id \in VisibleNodes(c)

\* a drawn node that stayed inside the view rectangle was hidden in the
\* frame before, at a smaller zoom, and is visible now, drawn once
C22_Witness ==
    \E c \in LandmarkViews :
        /\ landmarks[c].updates >= 2
        /\ ZoomLeq(landmarks[c].previous.last[2], landmarks[c].last[2])
        /\ landmarks[c].previous.last[2] # landmarks[c].last[2]
        /\ \E id \in (landmarks[c].previous.gfx \ landmarks[c].previous.visible)
                        \cap StaysInside(c) :
              /\ id \in VisibleNodes(c)
              /\ landmarks[c].ctx.gfx[id].draws = 1

\* a ceiling for the cache, for the statement of C23 (the code has none)
CacheCeiling == 4

\* the cache of view c: the Graphics and the generated nodes
Cached(c) ==
    DOMAIN landmarks[c].ctx.gfx
        \cup {id \in DOMAIN landmarks[c].ctx.nodes : landmarks[c].ctx.nodes[id].level > 0}

\* C23 (SpecLandmarks): the cache of generated nodes and Graphics holds at
\* most a fixed ceiling of entries more than the visible set.
C23_CacheBounded ==
    \A c \in LandmarkViews :
        Cardinality(Cached(c)) <= CacheCeiling + Cardinality(VisibleNodes(c))

\* C24 (SpecLandmarks): a frame removes no entry from the node map or the
\* Graphics map, changes a Graphics it had in its visibility alone, and
\* leaves the node of a Graphics it hides as it was.
C24_HiddenNotDeleted ==
    [][\A c \in LandmarkViews :
          LET ctx   == landmarks[c].ctx
              after == landmarks'[c].ctx
          IN  /\ DOMAIN ctx.nodes \subseteq DOMAIN after.nodes
              /\ DOMAIN ctx.gfx \subseteq DOMAIN after.gfx
              /\ \A id \in DOMAIN ctx.gfx :
                    /\ after.gfx[id] = [ctx.gfx[id] EXCEPT !.visible = after.gfx[id].visible]
                    /\ ~after.gfx[id].visible => after.nodes[id] = ctx.nodes[id]]_vars

\* a drawn node was outside the view rectangle of the frame before, hidden,
\* and is visible again now, drawn once
C24_Witness ==
    \E c \in LandmarkViews :
        /\ landmarks[c].updates >= 3
        /\ \E id \in landmarks[c].previous.gfx \ landmarks[c].previous.visible :
              /\ Outside(landmarks[c].ctx.nodes[id].bbox, landmarks[c].previous.last[1])
              /\ id \in VisibleNodes(c)
              /\ landmarks[c].ctx.gfx[id].draws = 1
              /\ landmarks[c].ctx.nodes[id].generatedChildren

\* the roots of view c, and two nodes at the distance the root generation
\* loop requires
Roots(c) == {id \in DOMAIN landmarks[c].ctx.nodes : landmarks[c].ctx.nodes[id].level = 0}
Spaced(a, b, config) ==
    LET required == ((a.radius + b.radius) * config.blobSpacing[1]) \div config.blobSpacing[2]
    IN  (a.cx - b.cx) * (a.cx - b.cx) + (a.cy - b.cy) * (a.cy - b.cy) >= required * required

\* C25 (SpecSeeds): createFractalLandmarks returns with every two roots at
\* least (radius + radius) * blobSpacing apart, after 1 to
\* MAX_PLACEMENT_ATTEMPTS attempts for each of the rootCount roots, and
\* with exactly the roots that found a place: a root is left out, with a
\* warning, after MAX_PLACEMENT_ATTEMPTS attempts that collided.
C25_RootsPlacedApart ==
    \A c \in LandmarkViews :
        LET ctx == landmarks[c].ctx
            placement == landmarks[c].placement
        IN  /\ \A a \in Roots(c), b \in Roots(c) :
                  a # b => Spaced(ctx.nodes[a], ctx.nodes[b], ctx.config)
            /\ Len(placement.attempts) = ctx.config.rootCount
            /\ \A i \in DOMAIN placement.attempts :
                  /\ placement.attempts[i] >= 1
                  /\ placement.attempts[i] <= MAX_PLACEMENT_ATTEMPTS
            /\ \A i \in placement.warned : placement.attempts[i + 1] = MAX_PLACEMENT_ATTEMPTS
            /\ {ctx.roots[k] : k \in DOMAIN ctx.roots}
                  = {<<i>> : i \in (0 .. ctx.config.rootCount - 1) \ placement.warned}
            /\ Roots(c) = {ctx.roots[k] : k \in DOMAIN ctx.roots}

\* a context whose fifth root found no place in MAX_PLACEMENT_ATTEMPTS
\* attempts and is left out, while a root before it was placed at its
\* sixth attempt
C25_Witness ==
    \E c \in LandmarkViews :
        /\ landmarks[c].placement.warned = {4}
        /\ Len(landmarks[c].ctx.roots) = 4
        /\ \E i \in DOMAIN landmarks[c].placement.attempts :
              landmarks[c].placement.attempts[i] = 6

\* the sum of the squares of the radii of the nodes ids
RECURSIVE SumOfSquares(_, _)
SumOfSquares(nodes, ids) ==
    IF ids = <<>> THEN 0
    ELSE nodes[Head(ids)].radius * nodes[Head(ids)].radius + SumOfSquares(nodes, Tail(ids))

\* the nodes of view c whose children have been generated
Parents(c) ==
    {id \in DOMAIN landmarks[c].ctx.nodes : landmarks[c].ctx.nodes[id].generatedChildren}

\* C26 (SpecSeeds): every child of a node whose children have been
\* generated lies inside the node's disk, and the areas of the children's
\* disks sum to at most childAreaFractionMax times the area of the node's.
C26_ChildrenInsideParent ==
    \A c \in LandmarkViews :
        \A id \in Parents(c) :
            LET nodes  == landmarks[c].ctx.nodes
                parent == nodes[id]
                config == landmarks[c].ctx.config
            IN  /\ \A k \in DOMAIN parent.children :
                      LET child == nodes[parent.children[k]]
                      IN  /\ child.radius <= parent.radius
                          /\ (child.cx - parent.cx) * (child.cx - parent.cx)
                                + (child.cy - parent.cy) * (child.cy - parent.cy)
                                <= (parent.radius - child.radius)
                                      * (parent.radius - child.radius)
                /\ SumOfSquares(nodes, parent.children) * config.childAreaFractionMax[2]
                      <= config.childAreaFractionMax[1] * parent.radius * parent.radius

\* a context of another seed than the views' has generated the children of
\* two of its roots, six or more each
C26_Witness ==
    /\ landmarks[1].ctx.seed # Seed
    /\ \E a \in Parents(1), b \in Parents(1) :
          /\ a # b
          /\ Len(landmarks[1].ctx.nodes[a].children) >= 6
          /\ Len(landmarks[1].ctx.nodes[b].children) >= 6

StrokeLengths == {1, 2, 7}

C29_ScaledStrokeInvertsZoom ==
    \A L \in StrokeLengths :
        LET w == GetScaledStroke(L, localScale, zoomExp)
        IN  /\ REq(RMul(w, localScale), RMul(RInt(L), RPow2(-zoomExp)))
            /\ REq(RMul(w, GetZoom(localScale, zoomExp)), RInt(L))

\* a zoom state off the initial one in mantissa and exponent, where the
\* scaled width of the draw tool's 2 pixels differs from the initial one
C29_Witness ==
    /\ zoomExp # InitialZoomExp
    /\ ~REq(localScale, InitialLocalScale)
    /\ ~REq(GetScaledStroke(2, localScale, zoomExp),
            GetScaledStroke(2, InitialLocalScale, InitialZoomExp))
    /\ REq(RMul(GetScaledStroke(2, localScale, zoomExp), GetZoom(localScale, zoomExp)),
           RInt(2))

\* C28: every stroke the draw tool commits to the store has at least 2
\* points, and a call of pointerUp (for pointerup or pointercancel) that
\* ends a gesture for which fewer than 2 points were collected adds no
\* item, issues no write and leaves the revision as it is; a stroke it
\* adds has the points collected for the pointer
C28_CommitsNeedTwoPoints ==
    /\ \A k \in DOMAIN StrokeItems(tree) : Len(StrokeItems(tree)[k].data.pts) >= 2
    /\ \A k \in DOMAIN dbq :
          dbq[k].op = "put" => Len(dbq[k].row.data.pts) >= 2
    /\ pointerLog.lastUp # NoPointerUp =>
          LET up == pointerLog.lastUp
          IN  /\ up.collected < 2 =>
                    up.added = <<>> /\ up.revisions = 0 /\ up.puts = 0
              /\ \A k \in DOMAIN up.added :
                    up.collected >= 2 /\ Len(up.added[k].data.pts) = up.collected

\* after a stroke was committed, a gesture of one point is cancelled and
\* leaves the store as it was
C28_Witness ==
    /\ revision = 1
    /\ Len(StrokeItems(tree)) = 1
    /\ pointerLog.lastUp # NoPointerUp
    /\ pointerLog.lastUp.type = "pointercancel"
    /\ pointerLog.lastUp.collected = 1
    /\ pointerLog.lastUp.added = <<>>
    /\ ~drawState.active
    /\ Len(drawState.pts) = 1

\* C30: after every render tick of the view, a Graphics cached under a
\* key other than "temp" is visible if and only if its key is the
\* identifier of a stroke that getVisibleItems returns for the view
\* rectangle of the tick, and the cache holds one Graphics of its own for
\* every stroke identifier a tick has been given so far, and for no other
ReturnedStrokes ==
    StrokeIds(GetVisibleItems(tree,
        StoreRect(GetViewRect(worldX, worldY, localScale, zoomExp, view))))

CachedStrokes(cache) == DOMAIN cache \ {TempId}

C30_CacheReconciled ==
    [][lastFrame'.ticks = lastFrame.ticks + 1 =>
          /\ \A id \in CachedStrokes(strokeCache') :
                /\ strokeCache'[id] \in DOMAIN graphics'
                /\ graphics'[strokeCache'[id]].visible <=> id \in ReturnedStrokes
                /\ graphics'[strokeCache'[id]].inWorld
          /\ CachedStrokes(strokeCache') = lastFrame.seen \cup ReturnedStrokes
          /\ lastFrame'.seen = lastFrame.seen \cup ReturnedStrokes
          /\ \A id1, id2 \in DOMAIN strokeCache' :
                strokeCache'[id1] = strokeCache'[id2] => id1 = id2
          /\ TempId \in DOMAIN strokeCache =>
                /\ TempId \in DOMAIN strokeCache'
                /\ graphics'[strokeCache'[TempId]] = graphics[strokeCache[TempId]]]_vars

\* a tick has hidden the Graphics of a stroke an earlier tick showed, has
\* shown the Graphics of another stroke and has left the live preview alone
C30_Witness ==
    /\ lastFrame.ticks = 2
    /\ \E id \in lastFrame.seen \ lastFrame.returned :
          /\ id \in DOMAIN strokeCache
          /\ ~graphics[strokeCache[id]].visible
          /\ graphics[strokeCache[id]].path # <<>>
    /\ \E id \in lastFrame.returned :
          /\ id \in DOMAIN strokeCache
          /\ graphics[strokeCache[id]].visible
    /\ TempId \in DOMAIN strokeCache
    /\ graphics[strokeCache[TempId]].visible

\* C31: a view created with mainCanvas = false has an empty tool: whatever
\* pointer events reach it and however the active tool changes, it starts
\* no stroke, commits no stroke and creates no text card
C31_SubCanvasHasEmptyTool ==
    ~view.mainCanvas =>
        /\ ~drawState.active
        /\ drawState.g = NoGraphics
        /\ TreeObjects(tree) = <<>>
        /\ revision = 0

\* C35: whenever no stroke is in progress on the view, the cache of the
\* view has no "temp" entry and every Graphics the world container holds
\* is the Graphics of a cached stroke, so that no live preview is left
C35_NoPreviewWithoutStroke ==
    ~drawState.active =>
        /\ TempId \notin DOMAIN strokeCache
        /\ \A r \in DOMAIN graphics :
              graphics[r] # Dropped /\ graphics[r].inWorld =>
                  \E id \in CachedStrokes(strokeCache) : strokeCache[id] = r

\* the identifier a pending request is about
RequestId(req) == IF req.op = "put" THEN req.row.id ELSE req.id

\* no call that names the identifier is waiting for IndexedDB
Resolved(q, id) == \A k \in DOMAIN q : RequestId(q[k]) # id

Carried(data) ==
    {f \in {"title", "htmlString"} :
        \E patch \in Patches : f \in DOMAIN patch /\ data[f] = patch[f]}

\* C33: for every interleaving of updateTextCard calls on the same card
\* with patches on different fields, no update is lost: a field of the
\* card in memory or of its persisted row that carries a patched value
\* keeps it, the step that ends an update finds its patch in the card in
\* memory, once nothing is pending for the card the row equals the card
\* in memory, and revision goes up by one when an update ends and by
\* nothing when it resumes, so by exactly 2 for two updates
C33_NoLostUpdate ==
    [][/\ \A o \in IndexObjects, p \in IndexObjects' :
              o.id = p.id /\ IsTextCard(o) =>
                  \A f \in Carried(o.data) : p.data[f] = o.data[f]
       /\ \A k \in DOMAIN db.textCards, m \in DOMAIN db'.textCards :
              db.textCards[k].id = db'.textCards[m].id =>
                  \A f \in Carried(db.textCards[k].data) :
                      db'.textCards[m].data[f] = db.textCards[k].data[f]
       /\ lastOp'.op = "updateIndexed" => revision' = revision
       /\ lastOp'.op = "updateSaved" =>
              /\ revision' = revision + 1
              /\ \A o \in IndexObjects' :
                     o.id = lastOp'.id =>
                         /\ \A f \in DOMAIN lastOp'.patch : o.data[f] = lastOp'.patch[f]
                         /\ Resolved(dbq', o.id) =>
                                GetRow(db'.textCards, o.id) = <<Props(o)>>]_vars

\* two updateTextCard calls on the card of an addTextCard, one with a title
\* and one with an htmlString, the second made before the first had
\* resolved; both have resolved, the card in memory and the row carry both
\* patches and revision went from 1 to 3
C33_Witness ==
    /\ lastOp.op = "updateSaved"
    /\ ~lastOp.alone
    /\ lastOp.revAtCall = 1
    /\ lastOp.patch = [htmlString |-> "h"]
    /\ lastOp.old.data.title = "T"
    /\ calls = 3
    /\ revision = 3
    /\ dbq = <<>>
    /\ \E o \in IndexObjects :
          /\ o.id = lastOp.id
          /\ o.data.title = "T" /\ o.data.htmlString = "h"
          /\ db.textCards = <<Props(o)>>

\* C34: once the "change" listener of the import input has set
\* drawState.frozen on the main view, frozen is false again at some later
\* time, whether no file was selected, the import succeeded or
\* loadFromFile threw
C34_FrozenReleased == frozen ~> ~frozen

\* the text cards a tick of the view passes to syncPosition
PassedCards ==
    TextCards(GetVisibleItems(tree,
        StoreRect(GetViewRect(worldX, worldY, localScale, zoomExp, view))))

\* C36: after every render tick, each text card the tick passed to
\* syncPosition with a width of at least 50 px on the screen has its
\* notecard in the map of the overlay, attached to the host and displayed,
\* also when the card was out of the frames before or under 50 px in them
C36_SyncedCardsAttached ==
    [][lastFrame'.ticks = lastFrame.ticks + 1 =>
          \A k \in DOMAIN PassedCards :
              ~RLess(ScreenWidth(PassedCards[k], GetZoom(localScale, zoomExp)),
                     RInt(MinCardWidth)) =>
                  /\ PassedCards[k].id \in DOMAIN overlay'.notecards
                  /\ overlay'.notecards[PassedCards[k].id].attached
                  /\ overlay'.notecards[PassedCards[k].id].display = ""]_vars

\* what makes the node of an identifier: its place, its size, its level and
\* its parent
NodeIdentity(node) ==
    [id |-> node.id, level |-> node.level, parentId |-> node.parentId,
     cx |-> node.cx, cy |-> node.cy, radius |-> node.radius]

\* the identifiers of the context of view c name its nodes one to one
DistinctIds(c) ==
    LET ctx   == landmarks[c].ctx
        nodes == ctx.nodes
    IN  /\ \A k \in DOMAIN ctx.roots :
              /\ ctx.roots[k] \in {<<i>> : i \in 0..(ctx.config.rootCount - 1)}
              /\ IdChars(ctx.roots[k]) = <<76, 48, 95>> \o Digits(ctx.roots[k][1])
              /\ \A m \in DOMAIN ctx.roots : ctx.roots[k] = ctx.roots[m] => k = m
        /\ {ctx.roots[k][1] : k \in DOMAIN ctx.roots}
              = (0..(ctx.config.rootCount - 1)) \ landmarks[c].placement.warned
        /\ \A id \in DOMAIN nodes :
              /\ nodes[id].id = id
              /\ nodes[id].level = Len(id) - 1
              /\ \A k \in DOMAIN nodes[id].children :
                    /\ nodes[id].children[k] = Append(id, k - 1)
                    /\ IdChars(nodes[id].children[k])
                           = IdChars(id) \o <<95>> \o Digits(k - 1)
                    /\ nodes[id].children[k] \in DOMAIN nodes
                    /\ nodes[nodes[id].children[k]].parentId = id
              /\ IF Len(id) = 1 THEN \E k \in DOMAIN ctx.roots : ctx.roots[k] = id
                 ELSE /\ nodes[id].parentId \in DOMAIN nodes
                      /\ \E k \in DOMAIN nodes[nodes[id].parentId].children :
                            nodes[nodes[id].parentId].children[k] = id
        /\ \A a \in DOMAIN nodes, b \in DOMAIN nodes :
              IdChars(a) = IdChars(b) => a = b
        /\ DOMAIN ctx.gfx \subseteq DOMAIN nodes

\* C37: the identifiers of the landmark nodes are pairwise distinct: a
\* root is L0_<i> for its loop index i, a child is <parentId>_<k> for its
\* index k among the children of its parent, no two nodes of a context
\* have one name, and an update never puts another node under an
\* identifier the node map has, nor another Graphics under one the
\* graphics map has
C37_IdsDistinct ==
    [][\A c \in LandmarkViews :
          /\ DistinctIds(c)'
          /\ landmarks'[c].updates = landmarks[c].updates + 1 =>
                /\ \A id \in DOMAIN landmarks[c].ctx.nodes :
                      /\ id \in DOMAIN landmarks'[c].ctx.nodes
                      /\ NodeIdentity(landmarks'[c].ctx.nodes[id])
                             = NodeIdentity(landmarks[c].ctx.nodes[id])
                /\ \A id \in DOMAIN landmarks[c].ctx.gfx :
                      /\ id \in DOMAIN landmarks'[c].ctx.gfx
                      /\ landmarks'[c].ctx.gfx[id].x = landmarks[c].ctx.gfx[id].x
                      /\ landmarks'[c].ctx.gfx[id].y = landmarks[c].ctx.gfx[id].y
                      /\ landmarks'[c].ctx.gfx[id].pts = landmarks[c].ctx.gfx[id].pts]_vars

\* a context of another seed than the views' in which two roots have
\* children: the first child of each has index 0 and a name of its own,
\* and both have a Graphics
C37_Witness ==
    /\ landmarks[1].ctx.seed # Seed
    /\ landmarks[1].updates = 2
    /\ \E a \in DOMAIN landmarks[1].ctx.roots, b \in DOMAIN landmarks[1].ctx.roots :
          /\ a # b
          /\ Len(landmarks[1].ctx.nodes[landmarks[1].ctx.roots[a]].children) >= 2
          /\ Len(landmarks[1].ctx.nodes[landmarks[1].ctx.roots[b]].children) >= 2
          /\ Append(landmarks[1].ctx.roots[a], 0) \in DOMAIN landmarks[1].ctx.gfx
          /\ Append(landmarks[1].ctx.roots[b], 0) \in DOMAIN landmarks[1].ctx.gfx

\* ---------------------------------------------------------------------
\* ElementsManager (js/elements.js): the items, the selection, the
\* clipboard and the undo history of the 2D-canvas application
\* ---------------------------------------------------------------------

\* what reading .src of an object without one gives, written to img.src
Undefined == "undefined"

\* item.img instanceof HTMLImageElement
IsImageElement(img) == img # <<>> /\ img[1].element

\* the callback of this.items.map in saveState and loadItems: an image item
\* with a live element becomes { ...item, img: { src: item.img.src } }
Serializable(item) ==
    IF item.type = "image" /\ IsImageElement(item.img)
    THEN [item EXCEPT !.img = <<[element |-> FALSE, src |-> item.img[1].src]>>]
    ELSE item

\* JSON.parse(JSON.stringify(item)): numbers, strings and plain objects come
\* back as they went; an HTMLImageElement has no own enumerable property and
\* comes back as {}
JsonCopy(item) ==
    IF IsImageElement(item.img)
    THEN [item EXCEPT !.img = <<[element |-> FALSE, src |-> Undefined]>>]
    ELSE item

\* the callback of itemsFromHistory.map in undo, and the same lines of
\* paste: img = new Image(); img.src = item.img.src
Rehydrate(item) ==
    IF item.type = "image"
    THEN [item EXCEPT !.img = <<[element |-> TRUE, src |-> item.img[1].src]>>]
    ELSE item

\* the objects a list of references holds
ElementValues(m, refs) == [i \in DOMAIN refs |-> m.heap[refs[i]]]

\* the places of n objects made next
NewRefs(m, n) == [i \in 1..n |-> Len(m.heap) + i]

SaveState_KeepsRedo(m) ==
    LET copy == [i \in DOMAIN m.items |-> JsonCopy(Serializable(m.heap[m.items[i]]))]
    IN  [m EXCEPT !.heap = @ \o copy,
                  !.history = Append(@, NewRefs(m, Len(m.items))),
                  !.historyIndex = @ + 1,
                  !.taken = Append(@, ElementValues(m, m.items)),
                  !.dropped = 0]

\* saveState()
SaveState(m) ==
    LET \* if (this.historyIndex < this.history.length - 1)
        \*     this.history = this.history.slice(0, this.historyIndex + 1)
        kept == IF m.historyIndex < Len(m.history) - 1
                THEN m.historyIndex + 1 ELSE Len(m.history)
        serializableItems == [i \in DOMAIN m.items |-> Serializable(m.heap[m.items[i]])]
        copy == [i \in DOMAIN m.items |-> JsonCopy(serializableItems[i])]
    IN  [m EXCEPT !.heap = @ \o copy,
                  !.history = Append(SubSeq(@, 1, kept), NewRefs(m, Len(m.items))),
                  !.historyIndex = @ + 1,
                  !.taken = Append(SubSeq(@, 1, kept), ElementValues(m, m.items)),
                  !.dropped = Len(m.history) - kept]

Undo_Aliases(m) ==
    IF m.historyIndex > 0
    THEN [m EXCEPT !.items = m.history[m.historyIndex],
                   !.historyIndex = @ - 1,
                   !.selected = NoRef]
    ELSE m

\* undo(): history is 0-based in the code and 1-based here, so the
\* snapshot at the decremented index is m.history[m.historyIndex]
Undo(m) ==
    IF m.historyIndex > 0
    THEN LET snapshot == m.history[m.historyIndex]
             itemsFromHistory == [i \in DOMAIN snapshot |-> JsonCopy(m.heap[snapshot[i]])]
             restored == [i \in DOMAIN snapshot |-> Rehydrate(itemsFromHistory[i])]
         IN  [m EXCEPT !.heap = @ \o restored,
                       !.items = NewRefs(m, Len(snapshot)),
                       !.historyIndex = @ - 1,
                       !.selected = NoRef]
    ELSE m

\* addItem(item); item is <<>> for null (finishDrawing returns null)
AddItem(m, item) ==
    IF item # <<>>
    THEN SaveState([m EXCEPT !.heap = Append(@, item[1]),
                             !.items = Append(@, Len(m.heap) + 1),
                             !.selected = Len(m.heap) + 1])
    ELSE m

\* selectElement(item), clearSelection()
SelectElement(m, ref) == [m EXCEPT !.selected = ref]

ClearSelection(m) == [m EXCEPT !.selected = NoRef]

\* what deleteSelected() returns
Deletes(m) == m.selected # NoRef /\ \E i \in DOMAIN m.items : m.items[i] = m.selected

\* deleteSelected()
DeleteSelected(m) ==
    IF Deletes(m)
    THEN [m EXCEPT !.items = SelectSeq(@, LAMBDA ref : ref # m.selected),
                   !.selected = NoRef]
    ELSE m

\* copySelected(): the clipboard is <<>> for null, else <<the copy>>
CopySelected(m) ==
    IF m.selected = NoRef THEN m
    ELSE LET selected == m.heap[m.selected]
             serializableItem ==
                 IF selected.type = "image"
                 THEN [selected EXCEPT !.img = <<[element |-> FALSE, src |-> selected.img[1].src]>>]
                 ELSE selected
         IN  [m EXCEPT !.clipboard = <<JsonCopy(serializableItem)>>]

\* the offset of a pasted item
PasteOffset == 20

\* paste()
Paste(m) ==
    IF m.clipboard = <<>> THEN m
    ELSE LET newItemData == JsonCopy(m.clipboard[1])
             moved == [newItemData EXCEPT !.x = @ + PasteOffset]
         IN  AddItem(m, <<Rehydrate(moved)>>)

\* loadItems(newItems): the objects of newItems become the items
LoadItems(m, newItems) ==
    LET refs == NewRefs(m, Len(newItems))
        serializableItems == [i \in DOMAIN newItems |-> Serializable(newItems[i])]
        copy == [i \in DOMAIN newItems |-> JsonCopy(serializableItems[i])]
    IN  [m EXCEPT !.heap = (@ \o newItems) \o copy,
                  !.items = refs,
                  !.selected = NoRef,
                  !.history = <<[i \in DOMAIN newItems |-> Len(m.heap) + Len(newItems) + i]>>,
                  !.historyIndex = 0,
                  !.taken = <<newItems>>,
                  !.dropped = 0]

\* ui.js, mousemove while dragging: draggingElement.x = pos.x - offsetX, on
\* the element mousedown hit and selected
DragElement(m, x) ==
    IF m.selected = NoRef THEN m
    ELSE [m EXCEPT !.heap[m.selected].x = x]

\* calls of methods in one behaviour
MaxElementCalls == 5

\* a call of a method: the manager after it, and which call it was
Call(name, m) ==
    /\ elements.calls < MaxElementCalls
    /\ elements' = [m EXCEPT !.lastCall = name, !.calls = elements.calls + 1]
    /\ UNCHANGED <<zoomVars, viewVars, storeVars, landVars, drawVars>>

ShapeItem == [type |-> "shape", x |-> 0, img |-> <<>>]
ImageItem == [type |-> "image", x |-> 0, img |-> <<[element |-> TRUE, src |-> "blob:a"]>>]
LoadedImage == [type |-> "image", x |-> 0, img |-> <<[element |-> FALSE, src |-> "blob:a"]>>]

ItemInputs == {<<>>, <<ShapeItem>>, <<ImageItem>>}
LoadInputs == {<<>>, <<ShapeItem>>, <<LoadedImage>>, <<ShapeItem, ImageItem>>}
DragPlaces == {5}

\* keydown Delete: if (elements.deleteSelected()) elements.saveState()
DeleteKey(m) == IF Deletes(m) THEN SaveState(DeleteSelected(m)) ELSE DeleteSelected(m)

NextElements ==
    \/ \E item \in ItemInputs : Call("addItem", AddItem(elements, item))
    \/ Call("saveState", SaveState(elements))
    \/ Call("undo", Undo(elements))
    \/ \E newItems \in LoadInputs : Call("loadItems", LoadItems(elements, newItems))
    \/ \E i \in DOMAIN elements.items :
           Call("selectElement", SelectElement(elements, elements.items[i]))
    \/ Call("clearSelection", ClearSelection(elements))
    \/ Call("deleteSelected", DeleteKey(elements))
    \/ Call("copySelected", CopySelected(elements))
    \/ Call("paste", Paste(elements))
    \/ \E x \in DragPlaces : Call("drag", DragElement(elements, x))

InitElements == IdleView /\ InitStore /\ db = EmptyDB

SpecElements == InitElements /\ [][NextElements]_vars


\* C38: after any sequence of addItem, saveState, undo and loadItems,
\* 0 <= historyIndex <= history.length - 1; a saveState discards every
\* snapshot beyond historyIndex before it pushes, so that right after it
\* historyIndex = history.length - 1 and the snapshots up to the old
\* historyIndex are the ones kept; loadItems leaves a single snapshot and
\* historyIndex 0.
HistoryIndexInRange ==
    /\ 0 <= elements.historyIndex
    /\ elements.historyIndex <= Len(elements.history) - 1

ElementsCall(name) == elements'.calls = elements.calls + 1 /\ elements'.lastCall = name

C38_HistoryIndexInRange ==
    /\ []HistoryIndexInRange
    /\ [][/\ (ElementsCall("saveState") \/ (ElementsCall("addItem") /\ elements'.history # elements.history))
             => /\ elements'.historyIndex = elements.historyIndex + 1
                /\ elements'.historyIndex = Len(elements'.history) - 1
                /\ SubSeq(elements'.history, 1, elements.historyIndex + 1)
                       = SubSeq(elements.history, 1, elements.historyIndex + 1)
          /\ ElementsCall("loadItems")
             => /\ Len(elements'.history) = 1
                /\ elements'.historyIndex = 0]_vars

\* a saveState after an undo has dropped the snapshot the undo left behind
C38_Witness ==
    /\ elements.lastCall = "saveState"
    /\ elements.dropped >= 1
    /\ elements.historyIndex >= 1
    /\ elements.historyIndex = Len(elements.history) - 1


\* an item by value: its fields, and of an image its src
PlainItem(item) ==
    IF item.img # <<>>
    THEN [item EXCEPT !.img = <<[element |-> FALSE, src |-> item.img[1].src]>>]
    ELSE item

PlainItems(values) == [i \in DOMAIN values |-> PlainItem(values[i])]

\* the objects the snapshots of the history hold
SnapshotRefs(m) == UNION {{m.history[k][i] : i \in DOMAIN m.history[k]} : k \in DOMAIN m.history}

\* what a caller can see of an ElementsManager
ElementsState(m) ==
    [items |-> m.items, values |-> ElementValues(m, m.items), selected |-> m.selected,
     history |-> m.history,
     snapshots |-> [k \in DOMAIN m.history |-> ElementValues(m, m.history[k])],
     historyIndex |-> m.historyIndex, clipboard |-> m.clipboard]

\* every snapshot still holds the items as they were when it was saved
SnapshotsKept ==
    \A k \in DOMAIN elements.history :
        ElementValues(elements, elements.history[k]) = PlainItems(elements.taken[k])

\* C39: undo() with historyIndex > 0 decrements historyIndex by one, makes
\* items new objects equal by value to history[historyIndex], none of them
\* an object of a snapshot, and clears the selection, and no later change
\* to an item alters a snapshot; undo() with historyIndex = 0 changes
\* nothing; undo() right after addItem leaves items equal to what they were
\* when the previous snapshot was saved.
C39_UndoRestores ==
    /\ []SnapshotsKept
    /\ [][ElementsCall("undo")
          => IF elements.historyIndex > 0
             THEN /\ elements'.historyIndex = elements.historyIndex - 1
                  /\ elements'.history = elements.history
                  /\ PlainItems(ElementValues(elements', elements'.items))
                         = PlainItems(ElementValues(elements', elements'.history[elements'.historyIndex + 1]))
                  /\ \A i \in DOMAIN elements'.items :
                         /\ elements'.items[i] \notin SnapshotRefs(elements')
                         /\ elements'.items[i] > Len(elements.heap)
                  /\ elements'.selected = NoRef
                  /\ elements.lastCall = "addItem"
                     => PlainItems(ElementValues(elements', elements'.items))
                            = PlainItems(elements.taken[elements.historyIndex])
             ELSE ElementsState(elements') = ElementsState(elements)]_vars

\* an item restored by undo, an image among the restored ones, has been
\* dragged since, with the snapshot it came from still in the history
C39_Witness ==
    /\ elements.lastCall = "drag"
    /\ elements.historyIndex < Len(elements.history) - 1
    /\ elements.selected # NoRef
    /\ elements.heap[elements.selected].x \in DragPlaces
    /\ elements.heap[elements.history[elements.historyIndex + 1][1]].x \notin DragPlaces
    /\ \E i \in DOMAIN elements.items : elements.heap[elements.items[i]].type = "image"

=============================================================================
